---- MODULE Spec2Model ----
(***************************************************************************)
(* Model of the messaging layer of pixpilot/chrome-extension-toolkit       *)
(* (packages/chrome-messenger): createMessage / createExternalMessage,     *)
(* the receive dispatcher makeMessageListener with its window filter, and  *)
(* the sender makeSend with its reply callback and error classification.   *)
(* Spec follows one envelope end to end, FairSpec the receiving context    *)
(* under fair scheduling, SendSpec the sender alone, ClassifySpec the      *)
(* classifier alone, ListenerSpec the registrations on both events,        *)
(* ContextSpec one envelope handed to several contexts, ThrowSpec handlers *)
(* that throw any value, ProbeSpec a channel while the globals change,     *)
(* FilterSpec processMessageWithWindowFilter alone; StorageSpec and        *)
(* OnceSpec follow StorageListener and getOnce of packages/chrome-storage. *)
(*                                                                         *)
(* Strings that the code builds or inspects are modelled as texts: a text  *)
(* is a sequence of pieces [w, up]; w is the piece in lower case and up    *)
(* tells whether the piece is written in upper case.  Concatenation is \o, *)
(* toLowerCase clears every up flag, includes() is containment of a piece. *)
(***************************************************************************)
EXTENDS Integers, Sequences, FiniteSets, TLC

\* ------------------------------------------------------------------ bounds
\* listener registrations (onMessage calls) over a run
MaxListeners == 2

ListenerIds == 1..MaxListeners
\* The envelopes followed.  A listener call keeps everything about an envelope
\* in its own closure (request, sender, nativeSendResponse), so the handling of
\* one envelope neither reads nor writes what belongs to another.
Requests == {"r1"}

\* ------------------------------------------------------------------- texts
Str(s) == << [w |-> s, up |-> FALSE] >>
Upper(s) == << [w |-> s, up |-> TRUE] >>
EmptyText == << >>

\* String.prototype.toLowerCase
ToLowerCase(text) == [i \in DOMAIN text |-> [w |-> text[i].w, up |-> FALSE]]

\* String.prototype.includes(keyword), keyword a lower-case literal
Includes(text, keyword) == \E i \in DOMAIN text : text[i] = [w |-> keyword, up |-> FALSE]

\* text ends with the text part
EndsWith(text, part) ==
    /\ Len(part) <= Len(text)
    /\ \A j \in 1..Len(part) : text[Len(text) - Len(part) + j] = part[j]

\* text contains the text part as a contiguous run
Contains(text, part) ==
    \E i \in 0..(Len(text) - Len(part)) :
        \A j \in 1..Len(part) : text[i + j] = part[j]

\* ------------------------------------------------------------- JS values
\* t: undefined | null | string | object; err: type of the `error` field of
\* an object (absent | string | boolean | undefined); es: the error field when a string;
\* body: the rest of the value.
Undefined == [t |-> "undefined", err |-> "absent", es |-> EmptyText, body |-> ""]
Null == [t |-> "null", err |-> "absent", es |-> EmptyText, body |-> ""]
StrVal(s) == [t |-> "string", err |-> "absent", es |-> EmptyText, body |-> s]
Obj(b) == [t |-> "object", err |-> "absent", es |-> EmptyText, body |-> b]
ErrObj(msg) == [t |-> "object", err |-> "string", es |-> msg, body |-> ""]
ErrFalse == [t |-> "object", err |-> "boolean", es |-> EmptyText, body |-> ""]
\* { error: undefined }
ErrUndefined == [t |-> "object", err |-> "undefined", es |-> EmptyText, body |-> ""]

\* the typeof operator: typeof null is 'object'
TypeOf(v) == IF v.t = "null" THEN "object" ELSE v.t

\* ----------------------------------------------------------- SendOptions
NoNum == [has |-> FALSE, v |-> 0]
Num(n) == [has |-> TRUE, v |-> n]
NoStr == [has |-> FALSE, v |-> ""]
SomeStr(s) == [has |-> TRUE, v |-> s]

Options(tab, ext, win) == [tabId |-> tab, extensionId |-> ext, windowId |-> win]
NoOptions == Options(NoNum, NoStr, NoNum)

Topics == {"T1", "T2"}
\* Identifiers are only ever compared for equality, so the envelopes followed
\* through the listeners carry one topic and the listeners' topics vary.
SentTopics == {"T1"}
DataValues == {"d1"}
TabIds == {0, 5}
ExtensionIds == {"", "x"}
WindowIds == {1, 2}
\* the window the receiving context lives in
OwnWindow == CHOOSE w \in WindowIds : \A x \in WindowIds : w <= x

TabChoices == {NoNum} \cup {Num(n) : n \in TabIds}
ExtChoices == {NoStr} \cup {SomeStr(s) : s \in ExtensionIds}
WinChoices == {NoNum} \cup {Num(n) : n \in WindowIds}

\* every well-typed options value
AllOptions == {Options(t, e, w) : t \in TabChoices, e \in ExtChoices, w \in WinChoices}
\* options that only carry a window filter
WindowOptions == {Options(NoNum, NoStr, w) : w \in WinChoices}

\* --------------------------------------------------------------- envelope
\* a value arriving at a runtime.onMessage listener
Envelope(id, data, options) ==
    [t |-> "object", hasId |-> TRUE, identifier |-> id, data |-> data, options |-> options]
NoRequest == [t |-> "undefined", hasId |-> FALSE, identifier |-> "", data |-> "", options |-> NoOptions]
\* values not produced by this library: null, a string, an object without identifier
ForeignValues ==
    { [t |-> "null", hasId |-> FALSE, identifier |-> "", data |-> "", options |-> NoOptions],
      [t |-> "string", hasId |-> FALSE, identifier |-> "", data |-> "invalid", options |-> NoOptions],
      [t |-> "object", hasId |-> FALSE, identifier |-> "", data |-> "test", options |-> NoOptions] }

\* variant: accepts every object that has an identifier
isValidMessage_AnyIdentifier(request, identifier) ==
    /\ (request.t = "object" \/ request.t = "null")
    /\ request.t # "null"
    /\ request.hasId

\* typeof request === 'object' && request !== null && 'identifier' in request && ...
isValidMessage(request, identifier) ==
    /\ (request.t = "object" \/ request.t = "null")
    /\ request.t # "null"
    /\ request.hasId
    /\ request.identifier = identifier

\* ------------------------------------------------- host API (browser env)
Api(runtime, tabs, windows) ==
    [present |-> TRUE, runtime |-> runtime, tabs |-> tabs, windows |-> windows]
NoApi == [present |-> FALSE, runtime |-> FALSE, tabs |-> FALSE, windows |-> FALSE]

\* the globals `chrome` and `browser`
Host(c, b) == [chrome |-> c, browser |-> b]

getBrowserEnv(h) ==
    IF h.chrome.present THEN h.chrome
    ELSE IF h.browser.present THEN h.browser
    ELSE NoApi

\* --------------------------------------------------------- error handler
CHROME_ERROR_PATTERNS ==
    << [code |-> "NO_RECEIVER",
        reason |-> "No listener registered for this message",
        solution |-> "Ensure the target script is loaded and onMessage listener is registered",
        includes |-> <<"receiving end does not exist", "could not establish connection">>],
       [code |-> "TAB_UNAVAILABLE",
        reason |-> "Tab is closed or page is restricted",
        solution |-> "Check tab exists before sending, or verify permissions for chrome:// pages",
        includes |-> <<"tab was closed", "no tab with id", "cannot access contents of",
                       "cannot access a chrome://", "cannot access chrome-extension://">>],
       [code |-> "CONTEXT_INVALIDATED",
        reason |-> "Extension was reloaded, updated, or disabled",
        solution |-> "Reload the page or restart the extension",
        includes |-> <<"extension context invalidated", "cannot access a chrome extension context",
                       "extension has been reloaded or disabled">>],
       [code |-> "PERMISSION_DENIED",
        reason |-> "Missing required permissions",
        solution |-> "Add necessary permissions to manifest.json",
        includes |-> <<"requires permission", "access is forbidden",
                       "this operation is not allowed">>],
       [code |-> "PORT_DISCONNECTED",
        reason |-> "Message port was closed before response",
        solution |-> "Check if the other end disconnected or use sendMessage instead",
        includes |-> <<"message port closed", "port has been disconnected",
                       "attempting to use a disconnected port">>] >>

RUNTIME_ERROR ==
    [code |-> "RUNTIME_ERROR", reason |-> "Chrome runtime error occurred",
     solution |-> "Check console for details", includes |-> << >>]

APPLICATION_ERROR ==
    [code |-> "APPLICATION_ERROR", reason |-> "Handler threw an error",
     solution |-> "Fix the error in your message handler", includes |-> << >>]

\* pattern.includes.some((keyword) => message.includes(keyword))
PatternMatches(pattern, message) ==
    \E k \in DOMAIN pattern.includes : Includes(message, pattern.includes[k])

\* variant: the last matching pattern of the table wins
categorizeRuntimeError_LastMatch(errorMessage) ==
    LET message == ToLowerCase(errorMessage)
        hits == {i \in DOMAIN CHROME_ERROR_PATTERNS : PatternMatches(CHROME_ERROR_PATTERNS[i], message)}
    IN  IF hits = {} THEN RUNTIME_ERROR
        ELSE CHROME_ERROR_PATTERNS[CHOOSE i \in hits : \A j \in hits : j <= i]

\* variant: the text is matched as written, without toLowerCase
categorizeRuntimeError_CaseSensitive(errorMessage) ==
    LET message == errorMessage
        hits == {i \in DOMAIN CHROME_ERROR_PATTERNS : PatternMatches(CHROME_ERROR_PATTERNS[i], message)}
    IN  IF hits = {} THEN RUNTIME_ERROR
        ELSE CHROME_ERROR_PATTERNS[CHOOSE i \in hits : \A j \in hits : i <= j]

\* for (const pattern of CHROME_ERROR_PATTERNS) if (...) return pattern; else
\* the generic runtime error

categorizeRuntimeError(errorMessage) ==
    LET message == ToLowerCase(errorMessage)
        hits == {i \in DOMAIN CHROME_ERROR_PATTERNS : PatternMatches(CHROME_ERROR_PATTERNS[i], message)}
    IN  IF hits = {} THEN RUNTIME_ERROR
        ELSE CHROME_ERROR_PATTERNS[CHOOSE i \in hits : \A j \in hits : i <= j]

\* variant: the target is chosen by the truthiness of tabId, so tab 0 is not named
TargetText_TruthyTabId(options) ==
    IF options.tabId.has /\ options.tabId.v # 0 THEN Str("tab ") \o Str(ToString(options.tabId.v))
    ELSE IF options.extensionId.has /\ options.extensionId.v # ""
         THEN Str("extension ") \o Str(options.extensionId.v)
    ELSE Str("runtime")

\* the target named in an error message
TargetText(options) ==
    IF options.tabId.has THEN Str("tab ") \o Str(ToString(options.tabId.v))
    ELSE IF options.extensionId.has /\ options.extensionId.v # ""
         THEN Str("extension ") \o Str(options.extensionId.v)
    ELSE Str("runtime")

\* variant: the message leaves out the Solution line
createDetailedErrorMessage_WithoutSolution(identifier, error, originalErrorMessage, options) ==
    Str("[chrome-messenger] Failed to send \"") \o Str(identifier) \o Str("\" to ")
        \o TargetText(options)
        \o Str("\nReason: ") \o Str(error.reason)
        \o Str("\nOriginal: ") \o originalErrorMessage

createDetailedErrorMessage(identifier, error, originalErrorMessage, options) ==
    Str("[chrome-messenger] Failed to send \"") \o Str(identifier) \o Str("\" to ")
        \o TargetText(options)
        \o Str("\nReason: ") \o Str(error.reason)
        \o Str("\nSolution: ") \o Str(error.solution)
        \o Str("\nOriginal: ") \o originalErrorMessage

\* ------------------------------------------------------------------ send
\* variant: any error field makes the response an error response
isErrorResponse_AnyErrorField(response) ==
    /\ response.t # "null"
    /\ TypeOf(response) = "object"
    /\ response.err # "absent"

isErrorResponse(response) ==
    /\ response.t # "null"
    /\ TypeOf(response) = "object"
    /\ response.err # "absent"
    /\ response.err = "string"

\* the promise returned by send
Idle == [st |-> "idle", val |-> Undefined, msg |-> EmptyText]
Pending == [st |-> "pending", val |-> Undefined, msg |-> EmptyText]
Resolved(v) == [st |-> "resolved", val |-> v, msg |-> EmptyText]
Rejected(m) == [st |-> "rejected", val |-> Undefined, msg |-> m]

\* A send: its promise, the closure of makeSend (identifier, data, options), the
\* function called (createMessage | createExternalMessage | none) and what the
\* transport handed to its reply callback (none | reply | failure): the reply
\* value, or the text of lastError.
NoSend ==
    [promise |-> Idle, identifier |-> "", data |-> "", options |-> NoOptions,
     via |-> "none", got |-> "none", reply |-> Undefined, raw |-> EmptyText]

\* a settled promise ignores later resolve / reject calls
Settle(promise, outcome) == IF promise.st = "pending" THEN outcome ELSE promise

\* lastError: the text of chrome.runtime.lastError.message, or unset
NoLastError == [set |-> FALSE, message |-> EmptyText]
LastError(m) == [set |-> TRUE, message |-> m]

\* variant: an error reply is looked at before the transport failure
responseCallback_ReplyFirst(identifier, options, response, lastError) ==
    IF isErrorResponse(response)
    THEN Rejected(createDetailedErrorMessage(identifier, APPLICATION_ERROR, response.es, options))
    ELSE IF lastError.set
    THEN LET chromeError == categorizeRuntimeError(lastError.message)
             original == IF lastError.message = EmptyText THEN Str("Unknown error")
                         ELSE lastError.message
         IN  Rejected(createDetailedErrorMessage(identifier, chromeError, original, options))
    ELSE Resolved(response)

\* variant: the error text of a reply is classified like a transport failure
responseCallback_ClassifiesReply(identifier, options, response, lastError) ==
    IF lastError.set
    THEN LET chromeError == categorizeRuntimeError(lastError.message)
             original == IF lastError.message = EmptyText THEN Str("Unknown error")
                         ELSE lastError.message
         IN  Rejected(createDetailedErrorMessage(identifier, chromeError, original, options))
    ELSE IF isErrorResponse(response)
    THEN Rejected(createDetailedErrorMessage(identifier, categorizeRuntimeError(response.es),
                                             response.es, options))
    ELSE Resolved(response)

\* the reply callback that makeSend hands to the transport
responseCallback(identifier, options, response, lastError) ==
    IF lastError.set
    THEN LET chromeError == categorizeRuntimeError(lastError.message)
             original == IF lastError.message = EmptyText THEN Str("Unknown error")
                         ELSE lastError.message
         IN  Rejected(createDetailedErrorMessage(identifier, chromeError, original, options))
    ELSE IF isErrorResponse(response)
    THEN Rejected(createDetailedErrorMessage(identifier, APPLICATION_ERROR, response.es, options))
    ELSE Resolved(response)

\* one transport call
TabCall(tabId, message) ==
    [api |-> "tabs.sendMessage", tab |-> Num(tabId), ext |-> NoStr, message |-> message]
ExternalCall(extensionId, message) ==
    [api |-> "runtime.sendMessage", tab |-> NoNum, ext |-> SomeStr(extensionId), message |-> message]
RuntimeCall(message) ==
    [api |-> "runtime.sendMessage", tab |-> NoNum, ext |-> NoStr, message |-> message]

\* variant: without the tabs capability a tab send goes to the runtime instead
makeSend_FallsBackToRuntime(h, identifier, data, options) ==
    LET browserEnv == getBrowserEnv(h)
        message == Envelope(identifier, data, options)
    IN  IF ~browserEnv.present
        THEN [promise |-> Rejected(Str("[chrome-messenger] browserEnv environment is not defined")),
              calls |-> << >>]
        ELSE IF ~browserEnv.runtime
        THEN [promise |-> Rejected(Str("[chrome-messenger] browserEnv.runtime is not defined")),
              calls |-> << >>]
        ELSE IF options.tabId.has /\ browserEnv.tabs
        THEN [promise |-> Pending, calls |-> << TabCall(options.tabId.v, message) >>]
        ELSE IF options.extensionId.has /\ Len(options.extensionId.v) > 0
        THEN [promise |-> Pending, calls |-> << ExternalCall(options.extensionId.v, message) >>]
        ELSE [promise |-> Pending, calls |-> << RuntimeCall(message) >>]

\* variant: after the tab call the code runs on into the runtime call
makeSend_FallsThrough(h, identifier, data, options) ==
    LET browserEnv == getBrowserEnv(h)
        message == Envelope(identifier, data, options)
    IN  IF ~browserEnv.present
        THEN [promise |-> Rejected(Str("[chrome-messenger] browserEnv environment is not defined")),
              calls |-> << >>]
        ELSE IF ~browserEnv.runtime
        THEN [promise |-> Rejected(Str("[chrome-messenger] browserEnv.runtime is not defined")),
              calls |-> << >>]
        ELSE IF options.tabId.has
        THEN IF ~browserEnv.tabs
             THEN [promise |-> Rejected(Str("[chrome-messenger] Failed to send to tab ")
                                        \o Str(ToString(options.tabId.v))
                                        \o Str(": browserEnv.tabs is not defined")),
                   calls |-> << >>]
             ELSE [promise |-> Pending,
                   calls |-> << TabCall(options.tabId.v, message), RuntimeCall(message) >>]
        ELSE IF options.extensionId.has /\ Len(options.extensionId.v) > 0
        THEN [promise |-> Pending, calls |-> << ExternalCall(options.extensionId.v, message) >>]
        ELSE [promise |-> Pending, calls |-> << RuntimeCall(message) >>]

\* variant: the extensionId branch is tested before the tabId branch
makeSend_ExtensionFirst(h, identifier, data, options) ==
    LET browserEnv == getBrowserEnv(h)
        message == Envelope(identifier, data, options)
    IN  IF ~browserEnv.present
        THEN [promise |-> Rejected(Str("[chrome-messenger] browserEnv environment is not defined")),
              calls |-> << >>]
        ELSE IF ~browserEnv.runtime
        THEN [promise |-> Rejected(Str("[chrome-messenger] browserEnv.runtime is not defined")),
              calls |-> << >>]
        ELSE IF options.extensionId.has /\ Len(options.extensionId.v) > 0
        THEN [promise |-> Pending, calls |-> << ExternalCall(options.extensionId.v, message) >>]
        ELSE IF options.tabId.has
        THEN IF ~browserEnv.tabs
             THEN [promise |-> Rejected(Str("[chrome-messenger] Failed to send to tab ")
                                        \o Str(ToString(options.tabId.v))
                                        \o Str(": browserEnv.tabs is not defined")),
                   calls |-> << >>]
             ELSE [promise |-> Pending, calls |-> << TabCall(options.tabId.v, message) >>]
        ELSE [promise |-> Pending, calls |-> << RuntimeCall(message) >>]

\* makeSend(identifier)(data, options): the promise and the transport calls made
makeSend(h, identifier, data, options) ==
    LET browserEnv == getBrowserEnv(h)
        message == Envelope(identifier, data, options)
    IN  IF ~browserEnv.present
        THEN [promise |-> Rejected(Str("[chrome-messenger] browserEnv environment is not defined")),
              calls |-> << >>]
        ELSE IF ~browserEnv.runtime
        THEN [promise |-> Rejected(Str("[chrome-messenger] browserEnv.runtime is not defined")),
              calls |-> << >>]
        ELSE IF options.tabId.has
        THEN IF ~browserEnv.tabs
             THEN [promise |-> Rejected(Str("[chrome-messenger] Failed to send to tab ")
                                        \o Str(ToString(options.tabId.v))
                                        \o Str(": browserEnv.tabs is not defined")),
                   calls |-> << >>]
             ELSE [promise |-> Pending, calls |-> << TabCall(options.tabId.v, message) >>]
        ELSE IF options.extensionId.has /\ Len(options.extensionId.v) > 0
        THEN [promise |-> Pending, calls |-> << ExternalCall(options.extensionId.v, message) >>]
        ELSE [promise |-> Pending, calls |-> << RuntimeCall(message) >>]

\* createExternalMessage(identifier).send(extensionId, data)
externalSend(h, identifier, extensionId, data) ==
    makeSend(h, identifier, data, Options(NoNum, SomeStr(extensionId), NoNum))

\* ------------------------------------------------------ receive dispatcher
\* What a handler does when invoked: return a value, throw, or return a promise.
HandlerValues == {Undefined, Obj("v1"), ErrObj(Str("X"))}
\* messages of the Errors a handler throws or rejects with
ThrownMessages == {Str("X")}

Return(v) == [k |-> "return", v |-> v, message |-> EmptyText]
Throw(m) == [k |-> "throw", v |-> Undefined, message |-> m]
ReturnPromise == [k |-> "promise", v |-> Undefined, message |-> EmptyText]
Resolve(v) == [k |-> "resolve", v |-> v, message |-> EmptyText]
Reject(m) == [k |-> "reject", v |-> Undefined, message |-> m]
\* values thrown or rejected with that are no Error: a string, an object
\* without message, null, undefined
ThrownValues == {StrVal("boom"), Obj("code"), Null, Undefined}
ThrowValue(x) == [k |-> "throwValue", v |-> x, message |-> EmptyText]
RejectValue(x) == [k |-> "rejectValue", v |-> x, message |-> EmptyText]

CallOutcomes == {Return(v) : v \in HandlerValues} \cup {Throw(m) : m \in ThrownMessages}
                    \cup {ReturnPromise}
PromiseOutcomes == {Resolve(v) : v \in HandlerValues} \cup {Reject(m) : m \in ThrownMessages}

\* One listener's handling of one envelope.  st: none | ignored | lookup | pending | done;
\* ret: what the listener returned to the host (none | undefined | true | threw);
\* invoked: handler invocations; replies: nativeSendResponse invocations;
\* path: none | unfiltered | unavailable | match | mismatch;
\* out: how the handler ended; res / thrown: what it produced; reply: last value replied.
NoDisp ==
    [st |-> "none", ret |-> "none", invoked |-> 0, replies |-> 0, path |-> "none",
     out |-> "none", res |-> Undefined, thrown |-> EmptyText, reply |-> Undefined]

\* nativeSendResponse(v) seen from the listener
SendResponse(d, v) == [d EXCEPT !.replies = @ + 1, !.reply = v]

\* an entry of the reply log: the value and the listener that replied
Reply(l, v) == [l |-> l, v |-> v]

\* nativeSendResponse({ error: error.message }) for a caught value x that is no
\* Error: reading .message of null or undefined throws a TypeError before the
\* reply is made, and .message of any other value is undefined
catchValue(d, x, out, ret) ==
    IF x.t \in {"null", "undefined"}
    THEN [d |-> [d EXCEPT !.st = "done", !.out = out, !.res = x, !.ret = ret], sent |-> << >>]
    ELSE [d |-> SendResponse([d EXCEPT !.st = "done", !.out = out, !.res = x], ErrUndefined),
          sent |-> << ErrUndefined >>]

\* variant: a thrown Error is replied as String(error), not as error.message
processMessage_StringifiesError(d, o) ==
    LET called == [d EXCEPT !.invoked = @ + 1, !.ret = "true"]
    IN  CASE o.k = "promise" ->
                [d |-> [called EXCEPT !.st = "pending", !.out = "pending"], sent |-> << >>]
          [] o.k = "return" ->
                [d |-> SendResponse([called EXCEPT !.st = "done", !.out = "return", !.res = o.v], o.v),
                 sent |-> << o.v >>]
          [] o.k = "throw" ->
                [d |-> SendResponse([called EXCEPT !.st = "done", !.out = "throw", !.thrown = o.message],
                                    ErrObj(Str("Error: ") \o o.message)),
                 sent |-> << ErrObj(Str("Error: ") \o o.message) >>]
          [] o.k = "throwValue" ->
                catchValue(called, o.v, "throw", IF d.path = "match" THEN "true" ELSE "threw")

\* processMessage(): d after the call, and the values passed to nativeSendResponse
processMessage(d, o) ==
    LET called == [d EXCEPT !.invoked = @ + 1, !.ret = "true"]
    IN  CASE o.k = "promise" ->
                [d |-> [called EXCEPT !.st = "pending", !.out = "pending"], sent |-> << >>]
          [] o.k = "return" ->
                [d |-> SendResponse([called EXCEPT !.st = "done", !.out = "return", !.res = o.v], o.v),
                 sent |-> << o.v >>]
          [] o.k = "throw" ->
                [d |-> SendResponse([called EXCEPT !.st = "done", !.out = "throw", !.thrown = o.message],
                                    ErrObj(o.message)),
                 sent |-> << ErrObj(o.message) >>]
          [] o.k = "throwValue" ->
                catchValue(called, o.v, "throw", IF d.path = "match" THEN "true" ELSE "threw")

\* variant: the resolved value is not passed on to nativeSendResponse
promiseSettled_DropsValue(d, o) ==
    CASE o.k = "resolve" ->
            [d |-> SendResponse([d EXCEPT !.st = "done", !.out = "resolve", !.res = o.v], Undefined),
             sent |-> << Undefined >>]
      [] o.k = "reject" ->
            [d |-> SendResponse([d EXCEPT !.st = "done", !.out = "reject", !.thrown = o.message],
                                ErrObj(o.message)),
             sent |-> << ErrObj(o.message) >>]
      [] o.k = "rejectValue" -> catchValue(d, o.v, "reject", d.ret)

\* the .then / .catch continuations of processMessage
promiseSettled(d, o) ==
    CASE o.k = "resolve" ->
            [d |-> SendResponse([d EXCEPT !.st = "done", !.out = "resolve", !.res = o.v], o.v),
             sent |-> << o.v >>]
      [] o.k = "reject" ->
            [d |-> SendResponse([d EXCEPT !.st = "done", !.out = "reject", !.thrown = o.message],
                                ErrObj(o.message)),
             sent |-> << ErrObj(o.message) >>]
      [] o.k = "rejectValue" -> catchValue(d, o.v, "reject", d.ret)

\* variant: a missing windows API is answered with an error instead of onMatch
handleWindowFilterWithManualResponse_FailsWithoutWindows(h, d, options, o) ==
    IF options.windowId.has
    THEN IF getBrowserEnv(h).windows
         THEN [d |-> [d EXCEPT !.st = "lookup", !.ret = "true"], sent |-> << >>]
         ELSE [d |-> SendResponse([d EXCEPT !.st = "done", !.ret = "true", !.path = "unavailable"],
                                  ErrObj(Str("windows API is not available"))),
               sent |-> << ErrObj(Str("windows API is not available")) >>]
    ELSE processMessage([d EXCEPT !.path = "unfiltered"], o)

\* handleWindowFilterWithManualResponse up to the asynchronous lookup
handleWindowFilterWithManualResponse(h, d, options, o) ==
    IF options.windowId.has
    THEN IF getBrowserEnv(h).windows
         THEN [d |-> [d EXCEPT !.st = "lookup", !.ret = "true"], sent |-> << >>]
         ELSE processMessage([d EXCEPT !.path = "unavailable"], o)
    ELSE processMessage([d EXCEPT !.path = "unfiltered"], o)

\* variant: a mismatch is answered with an error envelope
windowLookupCallback_RejectsMismatch(d, options, currentWindowId, o) ==
    IF currentWindowId = options.windowId.v
    THEN processMessage([d EXCEPT !.path = "match"], o)
    ELSE [d |-> SendResponse([d EXCEPT !.st = "done", !.path = "mismatch"],
                             ErrObj(Str("window mismatch"))),
          sent |-> << ErrObj(Str("window mismatch")) >>]

\* variant: replies once more after onMatch, as processMessageWithWindowFilter does
windowLookupCallback_ReplyAfterMatch(d, options, currentWindowId, o) ==
    IF currentWindowId = options.windowId.v
    THEN LET pm == processMessage([d EXCEPT !.path = "match"], o)
         IN  [d |-> SendResponse(pm.d, Undefined), sent |-> pm.sent \o << Undefined >>]
    ELSE [d |-> SendResponse([d EXCEPT !.st = "done", !.path = "mismatch"], Undefined),
          sent |-> << Undefined >>]

\* variant: a mismatch is dropped without a reply
windowLookupCallback_SilentMismatch(d, options, currentWindowId, o) ==
    IF currentWindowId = options.windowId.v
    THEN processMessage([d EXCEPT !.path = "match"], o)
    ELSE [d |-> [d EXCEPT !.st = "done", !.path = "mismatch"], sent |-> << >>]

\* the callback given to windows.getCurrent
windowLookupCallback(d, options, currentWindowId, o) ==
    IF currentWindowId = options.windowId.v
    THEN processMessage([d EXCEPT !.path = "match"], o)
    ELSE [d |-> SendResponse([d EXCEPT !.st = "done", !.path = "mismatch"], Undefined),
          sent |-> << Undefined >>]

\* the listener built by makeMessageListener(identifier, handler), called by the host
makeMessageListener(h, identifier, d, request, o) ==
    IF ~isValidMessage(request, identifier)
    THEN [d |-> [d EXCEPT !.st = "ignored", !.ret = "undefined"], sent |-> << >>]
    ELSE IF request.options.windowId.has
    THEN handleWindowFilterWithManualResponse(h, d, request.options, o)
    ELSE processMessage([d EXCEPT !.path = "unfiltered"], o)

\* ------------------------------------------------------------------ state
VARIABLES
    host,           \* the globals chrome / browser of the context
    currentWindow,  \* id of the window windows.getCurrent reports
    installed,      \* listeners on runtime.onMessage, in registration order
    installedExternal, \* listeners on runtime.onMessageExternal, in registration order
    handlerTopic,   \* listener id -> identifier of its channel ("" = not created)
    handlerEvent,   \* listener id -> event it was added to ("" = not created)
    nextListener,   \* next listener id
    disposed,       \* listener ids whose disposer has been called
    req,            \* request -> the value put on the transport
    phase,          \* request -> unused | sent | dispatching | closed
    queue,          \* request -> listeners the host still has to call
    disp,           \* request, listener -> dispatch record
    replyLog,       \* request -> values passed to the host reply function, in order
    outOfOrder,     \* request -> a listener call of the host invoked a handler after
                    \* the handler of a listener registered later
    sendSt,         \* request -> the send that produced it (NoSend for a foreign value)
    calls,          \* request -> transport calls made by the send
    classifierInput, \* the text handed to categorizeRuntimeError
    classifierOutput, \* the category it returned (NoChromeError before the call)
    storageListener, \* a StorageListener: its listeners, its chromeListener (0 = null),
                    \* and onChanged, the listeners on chrome.storage.onChanged
    registration,   \* registration id -> its key and area ("" = not made / no area)
    nextRegistration, \* next registration id
    removed,        \* registrations taken away by unsubscribe or removeAllListeners
    notified,       \* registration id -> calls of its callback for the last change
    stored,         \* chrome.storage.local: key -> value ("undefined" = no item)
    setKeys,        \* keys that set was called for
    onceCall,       \* getOnce call -> where it is, its key, the value got, remove calls
    lastGet,        \* the last get that returned: its key and value
    contextWindow,  \* listener id -> id of the window of the context it was registered in
    channelMade,    \* the global found when createMessage was called ("" = not called)
    surface,        \* global (chrome | browser) -> listeners on its runtime.onMessage
    capturedEnv,    \* listener id -> the global its onMessage call captured ("" = none)
    nextCaptured,   \* next listener id of the channel
    channelDisposed, \* listeners of the channel whose disposer was called
    sentVia,        \* the global the last send of the channel went to ("" = no send)
    filter          \* one call of processMessageWithWindowFilter: where it is, its
                    \* arguments, the calls it made in order, what it returned

vars == << host, currentWindow, installed, installedExternal, handlerTopic, handlerEvent,
           nextListener, disposed, req, phase, queue, disp, replyLog, outOfOrder, sendSt, calls,
           classifierInput, classifierOutput, storageListener, registration, nextRegistration,
           removed, notified, stored, setKeys, onceCall, lastGet,
           contextWindow, channelMade, surface, capturedEnv, nextCaptured, channelDisposed,
           sentVia, filter >>

classifierVars == << classifierInput, classifierOutput >>
storageVars == << storageListener, registration, nextRegistration, removed, notified >>
\* what the messaging layer does not touch
onceVars == << stored, setKeys, onceCall, lastGet >>
\* the windows of the receiving contexts
contextVars == << contextWindow >>
\* a channel under changing globals
probeVars == << channelMade, surface, capturedEnv, nextCaptured, channelDisposed, sentVia >>
\* a call of the window filter
filterVars == << filter >>
sideVars == << storageVars, onceVars, contextVars, probeVars, filterVars >>

receiverVars == << installed, installedExternal, handlerTopic, handlerEvent, nextListener,
                   disposed >>
dispatchVars == << queue, disp, replyLog, outOfOrder >>

Remove(seq, x) == SelectSeq(seq, LAMBDA y : y # x)
InSeq(seq, x) == \E i \in DOMAIN seq : seq[i] = x

\* variant: the disposer removes every listener of the event
disposer_RemovesAll(installedNow, l) == << >>

\* event.removeListener(listener): the listeners of the event afterwards
disposer(installedNow, l) == Remove(installedNow, l)

\* listener l is on the event it was added to
Listening(l) ==
    IF handlerEvent[l] = "onMessageExternal" THEN InSeq(installedExternal, l)
    ELSE InSeq(installed, l)

\* ------------------------------------------------------ StorageListener
\* registrations (addListener calls) over a run
MaxRegistrations == 3
RegistrationIds == 1..MaxRegistrations
StorageKeys == {"k1", "k2"}
StorageAreas == {"local", "sync"}
\* the area of a registration: a storage area, or "" for both areas
AreaChoices == StorageAreas \cup {""}
NoRegistration == [key |-> "", area |-> ""]
\* new StorageListener()
NewStorageListener == [listeners |-> {}, chromeListener |-> 0, onChanged |-> << >>]

\* initializeChromeListener(); fresh names the new closure
initializeChromeListener(sl, fresh) ==
    IF sl.chromeListener # 0 THEN sl
    ELSE [sl EXCEPT !.chromeListener = fresh, !.onChanged = Append(@, fresh)]

cleanupChromeListener(sl) ==
    IF sl.chromeListener # 0
    THEN [sl EXCEPT !.onChanged = Remove(@, sl.chromeListener), !.chromeListener = 0]
    ELSE sl

addListener(sl, reg, fresh) ==
    LET added == [sl EXCEPT !.listeners = @ \cup {reg}]
    IN  IF Cardinality(added.listeners) = 1 THEN initializeChromeListener(added, fresh)
        ELSE added

\* variant: the chrome listener stays when the last registration goes
removeListener_NoCleanup(sl, reg) == [sl EXCEPT !.listeners = @ \ {reg}]

removeListener(sl, reg) ==
    LET deleted == [sl EXCEPT !.listeners = @ \ {reg}]
    IN  IF Cardinality(deleted.listeners) = 0 THEN cleanupChromeListener(deleted)
        ELSE deleted

removeAllListeners(sl) == cleanupChromeListener([sl EXCEPT !.listeners = {}])

listenerCount(sl) == Cardinality(sl.listeners)

\* one call of a chromeListener closure with a change of key in areaName: the
\* registrations whose callback it calls
Notifies(sl, regs, key, areaName) ==
    {id \in sl.listeners :
        /\ (regs[id].area = "" \/ regs[id].area = areaName)
        /\ regs[id].key = key}

StorageIdle ==
    /\ storageListener = NewStorageListener
    /\ registration = [id \in RegistrationIds |-> NoRegistration]
    /\ nextRegistration = 1
    /\ removed = {}
    /\ notified = [id \in RegistrationIds |-> 0]

\* ------------------------------------------------- ChromeStorage.getOnce
OnceCalls == {"c1", "c2"}
StoredValues == {"token123"}
\* a getOnce call: pc is idle | get | remove | done
NoOnceCall == [pc |-> "idle", key |-> "", value |-> "undefined", removes |-> 0]
NoGet == [key |-> "", value |-> "undefined"]

\* getOnce after get returned value: remove is called only if the value existed
afterGet(call, value) ==
    IF value # "undefined"
    THEN [call EXCEPT !.pc = "remove", !.value = value, !.removes = @ + 1]
    ELSE [call EXCEPT !.pc = "done", !.value = value]

OnceIdle ==
    /\ stored = [k \in StorageKeys |-> "undefined"]
    /\ setKeys = {}
    /\ onceCall = [c \in OnceCalls |-> NoOnceCall]
    /\ lastGet = NoGet

\* every listener lives in the one receiving context
OneContext == contextWindow = [l \in ListenerIds |-> OwnWindow]

\* the globals that can hold the host API
Globals == {"chrome", "browser"}
\* the global whose value getBrowserEnv returns ("none": undefined)
getBrowserEnvGlobal(h) ==
    IF h.chrome.present THEN "chrome"
    ELSE IF h.browser.present THEN "browser"
    ELSE "none"
\* createMessage was not called
NoChannel ==
    /\ channelMade = ""
    /\ surface = [g \in Globals |-> << >>]
    /\ capturedEnv = [l \in ListenerIds |-> ""]
    /\ nextCaptured = 1
    /\ channelDisposed = {}
    /\ sentVia = ""

\* processMessageWithWindowFilter was not called.  pc: idle | lookup | done;
\* onNoMatch: whether the optional callback was passed; window: the id that
\* windows.getCurrent reported (0 = no lookup made); log: the calls of onMatch,
\* onNoMatch and sendResponse in the order made; ret: none | true
NoFilterCall ==
    [pc |-> "idle", options |-> NoOptions, onNoMatch |-> FALSE, window |-> 0,
     log |-> << >>, ret |-> "none"]

\* processMessageWithWindowFilter(options, onMatch, sendResponse, onNoMatch) up
\* to its return
processMessageWithWindowFilter(h, options, onNoMatch) ==
    LET called == [NoFilterCall EXCEPT !.options = options, !.onNoMatch = onNoMatch]
    IN  IF options.windowId.has
        THEN IF getBrowserEnv(h).windows
             THEN [called EXCEPT !.pc = "lookup", !.ret = "true"]
             ELSE [called EXCEPT !.pc = "done", !.log = << "onMatch", "sendResponse" >>, !.ret = "true"]
        ELSE [called EXCEPT !.pc = "done", !.log = << "onMatch", "sendResponse" >>, !.ret = "true"]

\* variant: a mismatch without onNoMatch is left unanswered
windowFilterCallback_SilentMismatch(f, currentWindowId) ==
    IF currentWindowId = f.options.windowId.v
    THEN [f EXCEPT !.pc = "done", !.window = currentWindowId,
                   !.log = @ \o << "onMatch", "sendResponse" >>]
    ELSE IF f.onNoMatch
    THEN [f EXCEPT !.pc = "done", !.window = currentWindowId,
                   !.log = @ \o << "onNoMatch", "sendResponse" >>]
    ELSE [f EXCEPT !.pc = "done", !.window = currentWindowId]

\* the callback that processMessageWithWindowFilter gives to windows.getCurrent
windowFilterCallback(f, currentWindowId) ==
    IF currentWindowId = f.options.windowId.v
    THEN [f EXCEPT !.pc = "done", !.window = currentWindowId,
                   !.log = @ \o << "onMatch", "sendResponse" >>]
    ELSE IF f.onNoMatch
    THEN [f EXCEPT !.pc = "done", !.window = currentWindowId,
                   !.log = @ \o << "onNoMatch", "sendResponse" >>]
    ELSE [f EXCEPT !.pc = "done", !.window = currentWindowId,
                   !.log = @ \o << "sendResponse" >>]

InitCommon ==
    /\ currentWindow = OwnWindow
    /\ installed = << >>
    /\ installedExternal = << >>
    /\ handlerTopic = [l \in ListenerIds |-> ""]
    /\ handlerEvent = [l \in ListenerIds |-> ""]
    /\ nextListener = 1
    /\ disposed = {}
    /\ req = [r \in Requests |-> NoRequest]
    /\ phase = [r \in Requests |-> "unused"]
    /\ queue = [r \in Requests |-> << >>]
    /\ disp = [r \in Requests |-> [l \in ListenerIds |-> NoDisp]]
    /\ replyLog = [r \in Requests |-> << >>]
    /\ outOfOrder = [r \in Requests |-> FALSE]
    /\ sendSt = [r \in Requests |-> NoSend]
    /\ calls = [r \in Requests |-> << >>]
    /\ StorageIdle
    /\ OnceIdle
    /\ OneContext
    /\ NoChannel
    /\ filter = NoFilterCall

\* no category yet
NoChromeError == [code |-> "", reason |-> "", solution |-> "", includes |-> << >>]
\* the classifier on its own is not followed
ClassifierIdle == classifierInput = EmptyText /\ classifierOutput = NoChromeError

\* a context with the chrome global, runtime and tabs; windows may be missing
Init ==
    /\ host \in {Host(Api(TRUE, TRUE, w), NoApi) : w \in BOOLEAN}
    /\ InitCommon
    /\ ClassifierIdle

\* ---------------------------------------------------------------- actions
\* createMessage(topic).onMessage(handler)
OnMessage(topic) ==
    /\ nextListener <= MaxListeners
    /\ getBrowserEnv(host).present
    /\ getBrowserEnv(host).runtime
    /\ installed' = Append(installed, nextListener)
    /\ handlerTopic' = [handlerTopic EXCEPT ![nextListener] = topic]
    /\ handlerEvent' = [handlerEvent EXCEPT ![nextListener] = "onMessage"]
    /\ nextListener' = nextListener + 1
    /\ UNCHANGED << host, currentWindow, classifierVars, sideVars, installedExternal, disposed, req, phase,
                    sendSt, calls, dispatchVars >>

\* createExternalMessage(topic).onMessage(handler)
OnMessageExternal(topic) ==
    /\ nextListener <= MaxListeners
    /\ getBrowserEnv(host).present
    /\ getBrowserEnv(host).runtime
    /\ installedExternal' = Append(installedExternal, nextListener)
    /\ handlerTopic' = [handlerTopic EXCEPT ![nextListener] = topic]
    /\ handlerEvent' = [handlerEvent EXCEPT ![nextListener] = "onMessageExternal"]
    /\ nextListener' = nextListener + 1
    /\ UNCHANGED << host, currentWindow, classifierVars, sideVars, installed, disposed, req, phase,
                    sendSt, calls, dispatchVars >>

\* the disposer returned by onMessage of either kind of channel
Dispose(l) ==
    /\ l < nextListener
    /\ IF handlerEvent[l] = "onMessageExternal"
       THEN /\ installedExternal' = disposer(installedExternal, l)
            /\ UNCHANGED installed
       ELSE /\ installed' = disposer(installed, l)
            /\ UNCHANGED installedExternal
    /\ disposed' = disposed \cup {l}
    /\ UNCHANGED << host, currentWindow, classifierVars, sideVars, handlerTopic, handlerEvent, nextListener,
                    req, phase, sendSt, calls, dispatchVars >>

\* a request not yet used
NextRequest(r) == phase[r] = "unused"

\* the effect of a send on the sender's side
Sent(r, via, topic, data, options, result) ==
    /\ sendSt' = [sendSt EXCEPT ![r] =
            [promise |-> result.promise, identifier |-> topic, data |-> data,
             options |-> options, via |-> via, got |-> "none",
             reply |-> Undefined, raw |-> EmptyText]]
    /\ calls' = [calls EXCEPT ![r] = result.calls]
    /\ req' = [req EXCEPT ![r] = IF result.calls = << >> THEN NoRequest ELSE result.calls[1].message]
    /\ phase' = [phase EXCEPT ![r] = IF result.calls = << >> THEN "closed" ELSE "sent"]
    /\ UNCHANGED << host, currentWindow, classifierVars, sideVars, receiverVars, dispatchVars >>

\* createMessage(topic).send(data, options)
Send(r, topic, data, options) ==
    /\ NextRequest(r)
    /\ Sent(r, "createMessage", topic, data, options, makeSend(host, topic, data, options))

\* createExternalMessage(topic).send(extensionId, data)
ExternalSend(r, topic, extensionId, data) ==
    /\ NextRequest(r)
    /\ Sent(r, "createExternalMessage", topic, data, Options(NoNum, SomeStr(extensionId), NoNum),
            externalSend(host, topic, extensionId, data))

\* another sender puts a value on the transport that is no envelope of this library
ForeignSend(r, value) ==
    /\ NextRequest(r)
    /\ req' = [req EXCEPT ![r] = value]
    /\ phase' = [phase EXCEPT ![r] = "sent"]
    /\ UNCHANGED << host, currentWindow, classifierVars, sideVars, sendSt, calls, receiverVars, dispatchVars >>

\* the request went to an external peer
IsExternal(r) == calls[r] # << >> /\ calls[r][1].ext.has

\* the host starts to dispatch the value to the listeners now on the event the
\* value arrives on: onMessageExternal for a send to an external peer
Receive(r) ==
    /\ phase[r] = "sent"
    /\ phase' = [phase EXCEPT ![r] = "dispatching"]
    /\ queue' = [queue EXCEPT ![r] = IF IsExternal(r) THEN installedExternal ELSE installed]
    /\ UNCHANGED << host, currentWindow, classifierVars, sideVars, req, sendSt, calls, disp, replyLog,
                    outOfOrder, receiverVars >>

\* a listener step: the record and the reply log after it
Stepped(r, l, result) ==
    /\ disp' = [disp EXCEPT ![r][l] = result.d]
    /\ replyLog' = [replyLog EXCEPT ![r] = @ \o [i \in DOMAIN result.sent |-> Reply(l, result.sent[i])]]

\* a listener call of the host: the step, and whether it invoked the handler
\* after the handler of a listener registered later
ListenerCalled(r, l, result) ==
    /\ Stepped(r, l, result)
    /\ outOfOrder' = [outOfOrder EXCEPT ![r] =
            @ \/ (/\ result.d.invoked > disp[r][l].invoked
                  /\ \E later \in ListenerIds : later > l /\ disp[r][later].invoked > 0)]

\* variant: the host calls the listener added last first
DispatchNext_NewestFirst(r, o) ==
    /\ phase[r] = "dispatching"
    /\ queue[r] # << >>
    /\ LET l == queue[r][Len(queue[r])]
       IN  IF Listening(l)
           THEN ListenerCalled(r, l, makeMessageListener(host, handlerTopic[l], disp[r][l], req[r], o))
           ELSE UNCHANGED << disp, replyLog, outOfOrder >>
    /\ queue' = [queue EXCEPT ![r] = SubSeq(@, 1, Len(@) - 1)]
    /\ UNCHANGED << host, currentWindow, classifierVars, sideVars, req, phase, sendSt, calls, receiverVars >>

\* the host calls the next listener with (request, sender, sendResponse)
DispatchNext(r, o) ==
    /\ phase[r] = "dispatching"
    /\ queue[r] # << >>
    /\ LET l == Head(queue[r])
       IN  IF Listening(l)
           THEN ListenerCalled(r, l, makeMessageListener(host, handlerTopic[l], disp[r][l], req[r], o))
           ELSE UNCHANGED << disp, replyLog, outOfOrder >>
    /\ queue' = [queue EXCEPT ![r] = Tail(@)]
    /\ UNCHANGED << host, currentWindow, classifierVars, sideVars, req, phase, sendSt, calls, receiverVars >>

\* windows.getCurrent calls back
LookupCallback(r, l, o) ==
    /\ disp[r][l].st = "lookup"
    /\ Stepped(r, l, windowLookupCallback(disp[r][l], req[r].options, currentWindow, o))
    /\ UNCHANGED << host, currentWindow, classifierVars, sideVars, req, phase, queue, outOfOrder, sendSt, calls,
                    receiverVars >>

\* variant: the continuation of a disposed registration does not reply
PromiseSettles_SkipsDisposed(r, l, o) ==
    /\ disp[r][l].st = "pending"
    /\ IF l \in disposed
       THEN /\ disp' = [disp EXCEPT ![r][l].st = "done", ![r][l].out = o.k]
            /\ UNCHANGED replyLog
       ELSE Stepped(r, l, promiseSettled(disp[r][l], o))
    /\ UNCHANGED << host, currentWindow, classifierVars, sideVars, req, phase, queue, outOfOrder, sendSt, calls,
                    receiverVars >>

\* the promise returned by a handler settles
PromiseSettles(r, l, o) ==
    /\ disp[r][l].st = "pending"
    /\ Stepped(r, l, promiseSettled(disp[r][l], o))
    /\ UNCHANGED << host, currentWindow, classifierVars, sideVars, req, phase, queue, outOfOrder, sendSt, calls,
                    receiverVars >>

\* the transport passes the first reply to the sender's callback, lastError unset
TransportReply(r) ==
    /\ sendSt[r].promise.st = "pending"
    /\ replyLog[r] # << >>
    /\ sendSt' = [sendSt EXCEPT ![r].got = "reply", ![r].reply = Head(replyLog[r]).v,
            ![r].promise =
            Settle(@, responseCallback(sendSt[r].identifier, sendSt[r].options,
                                       Head(replyLog[r]).v, NoLastError))]
    /\ UNCHANGED << host, currentWindow, classifierVars, sideVars, req, phase, calls, receiverVars, dispatchVars >>

\* texts of chrome.runtime.lastError
RawTexts == { Str("could not establish connection") \o Str(". ") \o Upper("receiving end does not exist"),
              Upper("no tab with id") \o Str(": 5"),
              Str("some other error"),
              EmptyText }
\* the failure a sender sees when the receiving end goes away
PortClosedTexts == { Upper("message port closed") \o Str(" before a response was received") }

\* the transport calls the sender's callback with lastError set
TransportFail(r, raw) ==
    /\ sendSt[r].promise.st = "pending"
    /\ sendSt' = [sendSt EXCEPT ![r].got = "failure", ![r].raw = raw, ![r].promise =
            Settle(@, responseCallback(sendSt[r].identifier, sendSt[r].options,
                                       Undefined, LastError(raw)))]
    /\ UNCHANGED << host, currentWindow, classifierVars, sideVars, req, phase, calls, receiverVars, dispatchVars >>

Next ==
    \/ \E t \in Topics : OnMessage(t)
    \/ \E l \in ListenerIds : Dispose(l)
    \/ \E r \in Requests, t \in SentTopics, d \in DataValues, o \in WindowOptions : Send(r, t, d, o)
    \/ \E r \in Requests, v \in ForeignValues : ForeignSend(r, v)
    \/ \E r \in Requests : Receive(r)
    \/ \E r \in Requests, o \in CallOutcomes : DispatchNext(r, o)
    \/ \E r \in Requests, l \in ListenerIds, o \in CallOutcomes : LookupCallback(r, l, o)
    \/ \E r \in Requests, l \in ListenerIds, o \in PromiseOutcomes : PromiseSettles(r, l, o)
    \/ \E r \in Requests : TransportReply(r)
    \/ \E r \in Requests, raw \in PortClosedTexts : TransportFail(r, raw)

Spec == Init /\ [][Next]_vars

\* the handler's promise settles and the scope lookup calls back
Fairness ==
    \A r \in Requests, l \in ListenerIds :
        /\ WF_vars(\E o \in CallOutcomes : LookupCallback(r, l, o))
        /\ WF_vars(\E o \in PromiseOutcomes : PromiseSettles(r, l, o))

\* The receiving context alone: the sender's reply callback runs in the sending
\* context and touches nothing the listeners read or write.
ReceiveNext ==
    \/ \E t \in Topics : OnMessage(t)
    \/ \E l \in ListenerIds : Dispose(l)
    \/ \E r \in Requests, t \in SentTopics, d \in DataValues, o \in WindowOptions : Send(r, t, d, o)
    \/ \E r \in Requests, v \in ForeignValues : ForeignSend(r, v)
    \/ \E r \in Requests : Receive(r)
    \/ \E r \in Requests, o \in CallOutcomes : DispatchNext(r, o)
    \/ \E r \in Requests, l \in ListenerIds, o \in CallOutcomes : LookupCallback(r, l, o)
    \/ \E r \in Requests, l \in ListenerIds, o \in PromiseOutcomes : PromiseSettles(r, l, o)

FairSpec == Init /\ [][ReceiveNext]_vars /\ Fairness

\* ------------------------------------------------- the sender on its own
\* what a receiver outside the model may reply
ReplyValues == {Undefined, Null, StrVal("s"), Obj("v1"), ErrObj(Str("X")),
                ErrObj(Str("tab was closed")), ErrObj(EmptyText), ErrFalse}

\* the transport passes a reply of the receiving end to the sender's callback
HostReply(r, v) ==
    /\ sendSt[r].promise.st = "pending"
    /\ sendSt' = [sendSt EXCEPT ![r].got = "reply", ![r].reply = v, ![r].promise =
            Settle(@, responseCallback(sendSt[r].identifier, sendSt[r].options, v, NoLastError))]
    /\ UNCHANGED << host, currentWindow, classifierVars, sideVars, req, phase, calls, receiverVars, dispatchVars >>

\* what a transport hands to the callback next to a failure
FailureReplies == {Null, Obj("v1"), ErrObj(Str("tab was closed"))}

\* the transport calls the sender's callback with a value while lastError is set
FailedReply(r, raw, v) ==
    /\ sendSt[r].promise.st = "pending"
    /\ sendSt' = [sendSt EXCEPT ![r].got = "failure", ![r].raw = raw, ![r].reply = v, ![r].promise =
            Settle(@, responseCallback(sendSt[r].identifier, sendSt[r].options, v, LastError(raw)))]
    /\ UNCHANGED << host, currentWindow, classifierVars, sideVars, req, phase, calls, receiverVars, dispatchVars >>

\* the host APIs a context may find
Apis == {NoApi} \cup {Api(rt, tb, TRUE) : rt \in BOOLEAN, tb \in BOOLEAN}

SendInit ==
    /\ host \in {Host(c, b) : c \in Apis, b \in Apis}
    /\ InitCommon
    /\ ClassifierIdle

SendNext ==
    \/ \E r \in Requests, t \in Topics, d \in DataValues, o \in AllOptions : Send(r, t, d, o)
    \/ \E r \in Requests, t \in Topics, p \in ExtensionIds, d \in DataValues : ExternalSend(r, t, p, d)
    \/ \E r \in Requests, v \in ReplyValues : HostReply(r, v)
    \/ \E r \in Requests, raw \in RawTexts : TransportFail(r, raw)
    \/ \E r \in Requests, raw \in RawTexts, v \in FailureReplies : FailedReply(r, raw, v)

SendSpec == SendInit /\ [][SendNext]_vars

\* ------------------------------------------------- the classifier on its own
\* pieces of a generated text
MaxPieces == 2

\* every trigger of the table
Triggers ==
    UNION {{CHROME_ERROR_PATTERNS[i].includes[k] : k \in DOMAIN CHROME_ERROR_PATTERNS[i].includes} :
           i \in DOMAIN CHROME_ERROR_PATTERNS}
\* pieces of a failure text: a trigger or something else, in either case
TextPieces ==
    {[w |-> word, up |-> up] : word \in Triggers \cup {"some other error", ". "}, up \in BOOLEAN}
\* texts of the error handler's tests and of the Chrome runtime
KnownTexts ==
    { Upper("could not establish connection") \o Str(". ") \o Upper("receiving end does not exist")
        \o Str("."),
      Upper("no tab with id") \o Str(": 123"),
      Str("cannot access contents of") \o Str(" url") }
ErrorMessages ==
    UNION {[1..n -> TextPieces] : n \in 0..MaxPieces} \cup KnownTexts

ClassifyInit ==
    /\ host = Host(NoApi, NoApi)
    /\ InitCommon
    /\ classifierInput \in ErrorMessages
    /\ classifierOutput = NoChromeError

\* categorizeRuntimeError(errorMessage)
Classify ==
    /\ classifierOutput = NoChromeError
    /\ classifierOutput' = categorizeRuntimeError(classifierInput)
    /\ UNCHANGED << host, currentWindow, classifierInput, sideVars, req, phase, sendSt, calls,
                    receiverVars, dispatchVars >>

ClassifyNext == Classify

ClassifySpec == ClassifyInit /\ [][ClassifyNext]_vars

\* ------------------------------------- registrations of both kinds of channel
\* One channel is made per identifier and kind: createMessage(t) and
\* createExternalMessage(t), each once; every onMessage call of a topic is a
\* call on that channel.  Handlers return at once and no scope is sent.
SyncOutcomes == {Return(Obj("v1"))}

ListenerInit ==
    /\ host = Host(Api(TRUE, TRUE, TRUE), NoApi)
    /\ InitCommon
    /\ ClassifierIdle

ListenerNext ==
    \/ \E t \in Topics : OnMessage(t)
    \/ \E t \in Topics : OnMessageExternal(t)
    \/ \E l \in ListenerIds : Dispose(l)
    \/ \E r \in Requests, t \in SentTopics, d \in DataValues : Send(r, t, d, NoOptions)
    \/ \E r \in Requests, t \in SentTopics, p \in ExtensionIds, d \in DataValues :
            ExternalSend(r, t, p, d)
    \/ \E r \in Requests : Receive(r)
    \/ \E r \in Requests, o \in SyncOutcomes : DispatchNext(r, o)

ListenerSpec == ListenerInit /\ [][ListenerNext]_vars

\* ------------------------------------------------ the StorageListener alone
messagingVars == << host, currentWindow, receiverVars, dispatchVars, req, phase, sendSt, calls >>
\* what the storage listener does not touch
besideStorage == << messagingVars, classifierVars, onceVars, contextVars, probeVars, filterVars >>
\* what the storage calls do not touch
besideOnce == << messagingVars, classifierVars, storageVars, contextVars, probeVars, filterVars >>

\* unsubscribe = storageListener.addListener(key, callback, area)
AddListener(key, area) ==
    /\ nextRegistration <= MaxRegistrations
    /\ storageListener' = addListener(storageListener, nextRegistration, nextRegistration)
    /\ registration' = [registration EXCEPT ![nextRegistration] = [key |-> key, area |-> area]]
    /\ nextRegistration' = nextRegistration + 1
    /\ UNCHANGED << removed, notified, besideStorage >>

\* the unsubscribe function of registration id, called for the first or a later time
Unsubscribe(id) ==
    /\ id < nextRegistration
    /\ storageListener' = removeListener(storageListener, id)
    /\ removed' = removed \cup {id}
    /\ UNCHANGED << registration, nextRegistration, notified, besideStorage >>

RemoveAllListeners ==
    /\ storageListener' = removeAllListeners(storageListener)
    /\ removed' = 1..(nextRegistration - 1)
    /\ UNCHANGED << registration, nextRegistration, notified, besideStorage >>

\* chrome.storage.onChanged fires: the host calls every listener on it
StorageChanged(key, areaName) ==
    /\ notified' = [id \in RegistrationIds |->
            IF id \in Notifies(storageListener, registration, key, areaName)
            THEN Len(storageListener.onChanged) ELSE 0]
    /\ UNCHANGED << storageListener, registration, nextRegistration, removed, besideStorage >>

StorageInit ==
    /\ host = Host(Api(TRUE, TRUE, TRUE), NoApi)
    /\ InitCommon
    /\ ClassifierIdle

StorageNext ==
    \/ \E key \in StorageKeys, area \in AreaChoices : AddListener(key, area)
    \/ \E id \in RegistrationIds : Unsubscribe(id)
    \/ RemoveAllListeners
    \/ \E key \in StorageKeys, areaName \in StorageAreas : StorageChanged(key, areaName)

StorageSpec == StorageInit /\ [][StorageNext]_vars

\* ------------------------------------------------------- getOnce alone
\* storage.set(key, value), once per key
SetItem(key, value) ==
    /\ key \notin setKeys
    /\ stored' = [stored EXCEPT ![key] = value]
    /\ setKeys' = setKeys \cup {key}
    /\ UNCHANGED << onceCall, lastGet, besideOnce >>

\* storage.getOnce(key) is called: it calls get and waits
GetOnce(c, key) ==
    /\ onceCall[c].pc = "idle"
    /\ onceCall' = [onceCall EXCEPT ![c] = [@ EXCEPT !.pc = "get", !.key = key]]
    /\ UNCHANGED << stored, setKeys, lastGet, besideOnce >>

\* the get of a getOnce call returns what is stored now
GetOnceGot(c) ==
    /\ onceCall[c].pc = "get"
    /\ onceCall' = [onceCall EXCEPT ![c] = afterGet(@, stored[onceCall[c].key])]
    /\ UNCHANGED << stored, setKeys, lastGet, besideOnce >>

\* the remove of a getOnce call is carried out and getOnce returns
GetOnceRemoved(c) ==
    /\ onceCall[c].pc = "remove"
    /\ stored' = [stored EXCEPT ![onceCall[c].key] = "undefined"]
    /\ onceCall' = [onceCall EXCEPT ![c].pc = "done"]
    /\ UNCHANGED << setKeys, lastGet, besideOnce >>

\* storage.get(key) returns
GetItem(key) ==
    /\ lastGet' = [key |-> key, value |-> stored[key]]
    /\ UNCHANGED << stored, setKeys, onceCall, besideOnce >>

OnceInit ==
    /\ host = Host(Api(TRUE, TRUE, TRUE), NoApi)
    /\ InitCommon
    /\ ClassifierIdle

OnceNext ==
    \/ \E key \in StorageKeys, value \in StoredValues : SetItem(key, value)
    \/ \E c \in OnceCalls, key \in StorageKeys : GetOnce(c, key)
    \/ \E c \in OnceCalls : GetOnceGot(c)
    \/ \E c \in OnceCalls : GetOnceRemoved(c)
    \/ \E key \in StorageKeys : GetItem(key)

OnceSpec == OnceInit /\ [][OnceNext]_vars

\* ------------------------------------- one envelope, several receiving contexts
\* windows.getCurrent calls back in the context of listener l
ContextLookupCallback(r, l, o) ==
    /\ disp[r][l].st = "lookup"
    /\ Stepped(r, l, windowLookupCallback(disp[r][l], req[r].options, contextWindow[l], o))
    /\ UNCHANGED << host, currentWindow, classifierVars, sideVars, req, phase, queue, outOfOrder, sendSt, calls,
                    receiverVars >>

\* what the handlers of the contexts do: return a value or a promise
ContextOutcomes == {Return(Obj("v1")), ReturnPromise}

\* every context has the windows API; each listener is registered in a context
\* of its own, whose window is any of the windows
ContextInit ==
    /\ host = Host(Api(TRUE, TRUE, TRUE), NoApi)
    /\ currentWindow = OwnWindow
    /\ contextWindow \in [ListenerIds -> WindowIds]
    /\ installed = << >>
    /\ installedExternal = << >>
    /\ handlerTopic = [l \in ListenerIds |-> ""]
    /\ handlerEvent = [l \in ListenerIds |-> ""]
    /\ nextListener = 1
    /\ disposed = {}
    /\ req = [r \in Requests |-> NoRequest]
    /\ phase = [r \in Requests |-> "unused"]
    /\ queue = [r \in Requests |-> << >>]
    /\ disp = [r \in Requests |-> [l \in ListenerIds |-> NoDisp]]
    /\ replyLog = [r \in Requests |-> << >>]
    /\ outOfOrder = [r \in Requests |-> FALSE]
    /\ sendSt = [r \in Requests |-> NoSend]
    /\ calls = [r \in Requests |-> << >>]
    /\ StorageIdle
    /\ OnceIdle
    /\ NoChannel
    /\ filter = NoFilterCall
    /\ ClassifierIdle

ContextNext ==
    \/ \E topic \in SentTopics : OnMessage(topic)
    \/ \E r \in Requests, topic \in SentTopics, data \in DataValues, w \in WindowIds :
            Send(r, topic, data, Options(NoNum, NoStr, Num(w)))
    \/ \E r \in Requests : Receive(r)
    \/ \E r \in Requests, o \in ContextOutcomes : DispatchNext(r, o)
    \/ \E r \in Requests, l \in ListenerIds, o \in ContextOutcomes : ContextLookupCallback(r, l, o)
    \/ \E r \in Requests, l \in ListenerIds : PromiseSettles(r, l, Resolve(Obj("v1")))
    \/ \E r \in Requests : TransportReply(r)

ContextSpec == ContextInit /\ [][ContextNext]_vars

\* ----------------------------------------------- handlers that throw any value
\* what a handler throws or returns, and what its promise rejects with
ThrowOutcomes == {Throw(m) : m \in ThrownMessages} \cup {ThrowValue(x) : x \in ThrownValues}
                    \cup {ReturnPromise}
RejectOutcomes == {Reject(m) : m \in ThrownMessages} \cup {RejectValue(x) : x \in ThrownValues}

ThrowInit ==
    /\ host = Host(Api(TRUE, TRUE, TRUE), NoApi)
    /\ InitCommon
    /\ ClassifierIdle

ThrowNext ==
    \/ \E topic \in SentTopics : OnMessage(topic)
    \/ \E r \in Requests, topic \in SentTopics, data \in DataValues : Send(r, topic, data, NoOptions)
    \/ \E r \in Requests : Receive(r)
    \/ \E r \in Requests, o \in ThrowOutcomes : DispatchNext(r, o)
    \/ \E r \in Requests, l \in ListenerIds, o \in RejectOutcomes : PromiseSettles(r, l, o)
    \/ \E r \in Requests : TransportReply(r)

ThrowSpec == ThrowInit /\ [][ThrowNext]_vars

\* ------------------------------------------- a channel under changing globals
\* what the channel actions do not touch
besideProbe == << currentWindow, receiverVars, dispatchVars, req, phase, sendSt, calls,
                  classifierVars, storageVars, onceVars, contextVars, filterVars >>

\* the host APIs a script may find in its globals over time
ChangingHosts == {Host(c, b) : c \in {NoApi, Api(TRUE, TRUE, TRUE)}, b \in {NoApi, Api(TRUE, TRUE, TRUE)}}

\* createMessage(identifier): builds send and onMessage, reads no global
CreateMessage ==
    /\ channelMade = ""
    /\ channelMade' = getBrowserEnvGlobal(host)
    /\ UNCHANGED << host, surface, capturedEnv, nextCaptured, channelDisposed, sentVia, besideProbe >>

\* a script sets or deletes the globals chrome and browser
HostChanges(h) ==
    /\ h # host
    /\ host' = h
    /\ UNCHANGED << probeVars, besideProbe >>

\* onMessage(handler) of the channel: env = getBrowserEnv(), then
\* env.runtime.onMessage.addListener(listener); throws without a global
ChannelOnMessage ==
    /\ channelMade # ""
    /\ nextCaptured <= MaxListeners
    /\ getBrowserEnvGlobal(host) # "none"
    /\ surface' = [surface EXCEPT ![getBrowserEnvGlobal(host)] = Append(@, nextCaptured)]
    /\ capturedEnv' = [capturedEnv EXCEPT ![nextCaptured] = getBrowserEnvGlobal(host)]
    /\ nextCaptured' = nextCaptured + 1
    /\ UNCHANGED << host, channelMade, channelDisposed, sentVia, besideProbe >>

\* variant: the disposer looks the global up again
ChannelDispose_ProbesAgain(l) ==
    /\ l < nextCaptured
    /\ getBrowserEnvGlobal(host) # "none"
    /\ surface' = [surface EXCEPT ![getBrowserEnvGlobal(host)] = disposer(@, l)]
    /\ channelDisposed' = channelDisposed \cup {l}
    /\ UNCHANGED << host, channelMade, capturedEnv, nextCaptured, sentVia, besideProbe >>

\* the disposer of listener l: env.runtime.onMessage.removeListener(listener)
\* on the env its onMessage call captured
ChannelDispose(l) ==
    /\ l < nextCaptured
    /\ surface' = [surface EXCEPT ![capturedEnv[l]] = disposer(@, l)]
    /\ channelDisposed' = channelDisposed \cup {l}
    /\ UNCHANGED << host, channelMade, capturedEnv, nextCaptured, sentVia, besideProbe >>

\* send(data) of the channel: browserEnv = getBrowserEnv() inside the promise,
\* then browserEnv.runtime.sendMessage, or a rejection without a global
ChannelSend ==
    /\ channelMade # ""
    /\ sentVia' = getBrowserEnvGlobal(host)
    /\ UNCHANGED << host, channelMade, surface, capturedEnv, nextCaptured, channelDisposed, besideProbe >>

ProbeInit ==
    /\ host \in ChangingHosts
    /\ InitCommon
    /\ ClassifierIdle

ProbeNext ==
    \/ CreateMessage
    \/ \E h \in ChangingHosts : HostChanges(h)
    \/ ChannelOnMessage
    \/ \E l \in ListenerIds : ChannelDispose(l)
    \/ ChannelSend

ProbeSpec == ProbeInit /\ [][ProbeNext]_vars

\* ------------------------------------------------ the window filter on its own
\* what a call of the window filter does not touch
besideFilter == << messagingVars, classifierVars, storageVars, onceVars, contextVars, probeVars >>

\* a listener hands a message's options to processMessageWithWindowFilter
FilterCalled(options, onNoMatch) ==
    /\ filter.pc = "idle"
    /\ filter' = processMessageWithWindowFilter(host, options, onNoMatch)
    /\ UNCHANGED besideFilter

\* windows.getCurrent calls back with the current window
FilterLookupCallback(currentWindowId) ==
    /\ filter.pc = "lookup"
    /\ filter' = windowFilterCallback(filter, currentWindowId)
    /\ UNCHANGED besideFilter

\* any globals: none, chrome or browser, with or without the windows API
FilterInit ==
    /\ host \in {Host(c, b) : c \in {NoApi} \cup {Api(TRUE, TRUE, w) : w \in BOOLEAN},
                              b \in {NoApi} \cup {Api(TRUE, TRUE, w) : w \in BOOLEAN}}
    /\ InitCommon
    /\ ClassifierIdle

FilterNext ==
    \/ \E options \in AllOptions, onNoMatch \in BOOLEAN : FilterCalled(options, onNoMatch)
    \/ \E currentWindowId \in WindowIds : FilterLookupCallback(currentWindowId)

FilterSpec == FilterInit /\ [][FilterNext]_vars

\* ================================================================ claims
\* the listener l was called with request r
Called(r, l) == disp[r][l].st # "none"
\* replies of listener l to request r, counted in the host's reply log
RepliesOf(r, l) == Cardinality({i \in DOMAIN replyLog[r] : replyLog[r][i].l = l})
\* request r is an object carrying the identifier of listener l's channel
CarriesTopicOf(r, l) ==
    req[r].t = "object" /\ req[r].hasId /\ req[r].identifier = handlerTopic[l]
\* the scope lookup is available in the receiving context
LookupAvailable == getBrowserEnv(host).windows

\* C1: a dispatcher invokes the host reply function at most once for an
\* envelope it received, on every path (synchronous result, resolution,
\* rejection, synchronous throw, scope match, mismatch, lookup unavailable).
C1_AtMostOneReplyPerDispatcher ==
    \A r \in Requests, l \in ListenerIds :
        /\ disp[r][l].replies <= 1
        /\ RepliesOf(r, l) <= 1
        /\ RepliesOf(r, l) = disp[r][l].replies

\* C1 witness: a dispatcher replied once, after a scope match and a rejected promise
C1_Witness ==
    \E r \in Requests, l \in ListenerIds :
        /\ req[r].options.windowId.has /\ LookupAvailable
        /\ disp[r][l].out = "reject"
        /\ RepliesOf(r, l) = 1

\* C2: under fairness every envelope a dispatcher accepted (its topic matches)
\* eventually gets that dispatcher's reply.
C2_EventuallyReplies ==
    \A r \in Requests, l \in ListenerIds :
        (Called(r, l) /\ CarriesTopicOf(r, l)) ~> (RepliesOf(r, l) >= 1)

\* C2 witness: a reply sent for an envelope that was filtered out by its scope
C2_Witness ==
    \E r \in Requests, l \in ListenerIds :
        /\ Called(r, l) /\ CarriesTopicOf(r, l)
        /\ req[r].options.windowId.has /\ LookupAvailable
        /\ req[r].options.windowId.v # currentWindow
        /\ RepliesOf(r, l) = 1

\* C3: a received request has its host reply function invoked at most once in
\* total, also when several handlers are registered for its topic.
C3_AtMostOneReplyPerRequest ==
    \A r \in Requests : Len(replyLog[r]) <= 1

\* C4: a handler is never invoked for a value that is not an object carrying
\* its topic; its dispatcher returns undefined and does not reply.
C4_OtherValuesIgnored ==
    \A r \in Requests, l \in ListenerIds :
        ~CarriesTopicOf(r, l) =>
            /\ disp[r][l].invoked = 0
            /\ RepliesOf(r, l) = 0
            /\ Called(r, l) => disp[r][l].ret = "undefined"

\* C4 witness: a listener was called with an envelope of another topic, and a
\* listener was called with a value that is no envelope
C4_Witness ==
    \E r \in Requests, l \in ListenerIds :
        /\ Called(r, l)
        /\ req[r].hasId /\ req[r].identifier # handlerTopic[l]
        /\ disp[r][l].ret = "undefined"

\* the transport handed to the sender of r the reply of listener l
GotReplyOf(r, l) ==
    /\ sendSt[r].got = "reply"
    /\ replyLog[r] # << >>
    /\ Head(replyLog[r]).l = l
\* the handler of l ended with a value (returned or resolved) for request r
Produced(r, l) == disp[r][l].out \in {"return", "resolve"}
\* the handler of l ended with an Error (thrown or rejected) for request r
Failed(r, l) == disp[r][l].out \in {"throw", "reject"}
\* v is an object with a string-typed error field
LooksLikeError(v) == v.t = "object" /\ v.err = "string"
\* the only reply of listener l to request r is v
OnlyReply(r, l, v) ==
    /\ RepliesOf(r, l) = 1
    /\ \A i \in DOMAIN replyLog[r] : replyLog[r][i].l = l => replyLog[r][i].v = v

\* C5 as stated: when the reply of a handler that returned or resolved to v
\* reaches the sender without a transport failure, send resolves to exactly v.
C5_RoundTripAnyValue ==
    \A r \in Requests, l \in ListenerIds :
        (GotReplyOf(r, l) /\ Produced(r, l)) =>
            sendSt[r].promise = Resolved(disp[r][l].res)

\* C5 amended: ... send resolves to exactly v unless v is an object with a
\* string-typed error field, and then send rejects.
C5_RoundTrip ==
    \A r \in Requests, l \in ListenerIds :
        (GotReplyOf(r, l) /\ Produced(r, l)) =>
            IF LooksLikeError(disp[r][l].res)
            THEN sendSt[r].promise.st = "rejected"
            ELSE sendSt[r].promise = Resolved(disp[r][l].res)

\* C5 witness: a send resolved with the value a handler's promise resolved to
C5_Witness ==
    \E r \in Requests, l \in ListenerIds :
        /\ GotReplyOf(r, l)
        /\ disp[r][l].out = "resolve"
        /\ disp[r][l].res = Obj("v1")
        /\ sendSt[r].promise = Resolved(Obj("v1"))

\* C6 as stated: when a handler throws or rejects with Error("X"), send rejects
\* with an error whose message is exactly "X".
C6_RejectsWithExactMessage ==
    \A r \in Requests, l \in ListenerIds :
        (GotReplyOf(r, l) /\ Failed(r, l)) =>
            /\ sendSt[r].promise.st = "rejected"
            /\ sendSt[r].promise.msg = disp[r][l].thrown

\* C6 amended: ... send rejects with the composed message that names the topic
\* and the application-error reason and ends with the line "Original: X".
C6_RejectsWithComposedMessage ==
    \A r \in Requests, l \in ListenerIds :
        (GotReplyOf(r, l) /\ Failed(r, l)) =>
            /\ sendSt[r].promise.st = "rejected"
            /\ EndsWith(sendSt[r].promise.msg, Str("\nOriginal: ") \o disp[r][l].thrown)
            /\ Contains(sendSt[r].promise.msg, Str("\nReason: ") \o Str("Handler threw an error"))
            /\ Contains(sendSt[r].promise.msg, Str(sendSt[r].identifier))

\* C6 witness: a send rejected after its handler threw Error("X")
C6_Witness ==
    \E r \in Requests, l \in ListenerIds :
        /\ GotReplyOf(r, l)
        /\ disp[r][l].out = "throw"
        /\ disp[r][l].thrown = Str("X")
        /\ sendSt[r].promise.st = "rejected"

\* C7: with the scope lookup available, the handler is invoked for an envelope
\* carrying scopeId s iff the context's current scope is s; on a mismatch the
\* handler is not invoked, the reply is undefined, and send resolves with undefined.
C7_ScopeFilter ==
    \A r \in Requests, l \in ListenerIds :
        (Called(r, l) /\ CarriesTopicOf(r, l) /\ req[r].options.windowId.has /\ LookupAvailable) =>
            /\ disp[r][l].st = "lookup" => (disp[r][l].invoked = 0 /\ RepliesOf(r, l) = 0)
            /\ (disp[r][l].st # "lookup" /\ req[r].options.windowId.v = currentWindow) =>
                    disp[r][l].invoked = 1
            /\ (disp[r][l].st # "lookup" /\ req[r].options.windowId.v # currentWindow) =>
                    /\ disp[r][l].invoked = 0
                    /\ OnlyReply(r, l, Undefined)
                    /\ GotReplyOf(r, l) => sendSt[r].promise = Resolved(Undefined)

\* C7 witness: a send resolved with undefined after a scope mismatch
C7_Witness ==
    \E r \in Requests, l \in ListenerIds :
        /\ CarriesTopicOf(r, l) /\ LookupAvailable
        /\ req[r].options.windowId.has /\ req[r].options.windowId.v # currentWindow
        /\ GotReplyOf(r, l)
        /\ sendSt[r].promise = Resolved(Undefined)

\* C8: without the scope-lookup capability an envelope carrying a scopeId is
\* processed as if it carried none: the handler is invoked at once and the reply
\* is the handler's result or its {error}; nothing else is replied.
C8_MissingLookupIsUnfiltered ==
    \A r \in Requests, l \in ListenerIds :
        (Called(r, l) /\ CarriesTopicOf(r, l) /\ req[r].options.windowId.has /\ ~LookupAvailable) =>
            /\ disp[r][l].st \in {"pending", "done"}
            /\ disp[r][l].invoked = 1
            /\ disp[r][l].st = "pending" => RepliesOf(r, l) = 0
            /\ Produced(r, l) => OnlyReply(r, l, disp[r][l].res)
            /\ Failed(r, l) => OnlyReply(r, l, ErrObj(disp[r][l].thrown))
            /\ disp[r][l].st = "done" => (Produced(r, l) \/ Failed(r, l))
            /\ (GotReplyOf(r, l) /\ Produced(r, l) /\ ~LooksLikeError(disp[r][l].res)) =>
                    sendSt[r].promise = Resolved(disp[r][l].res)

\* C8 witness: a send resolved with the handler's value though the envelope
\* carried a scopeId and the context has no scope lookup
C8_Witness ==
    \E r \in Requests, l \in ListenerIds :
        /\ CarriesTopicOf(r, l) /\ req[r].options.windowId.has /\ ~LookupAvailable
        /\ disp[r][l].out = "return"
        /\ GotReplyOf(r, l)
        /\ sendSt[r].promise = Resolved(Obj("v1"))

\* C9: a send goes to the tab when tabId is set, else to the external peer when
\* extensionId is a non-empty string, else to the default runtime transport;
\* windowId plays no part.
C9_RouteSelection ==
    \A r \in Requests :
        sendSt[r].via = "createMessage" =>
            LET o == sendSt[r].options
                env == getBrowserEnv(host)
            IN  /\ Len(calls[r]) <= 1
                /\ (env.present /\ env.runtime /\ (o.tabId.has => env.tabs)) => Len(calls[r]) = 1
                /\ \A i \in DOMAIN calls[r] :
                        LET c == calls[r][i]
                        IN  IF o.tabId.has
                            THEN c.api = "tabs.sendMessage" /\ c.tab = o.tabId /\ ~c.ext.has
                            ELSE IF o.extensionId.has /\ o.extensionId.v # ""
                            THEN c.api = "runtime.sendMessage" /\ c.ext = o.extensionId /\ ~c.tab.has
                            ELSE c.api = "runtime.sendMessage" /\ ~c.ext.has /\ ~c.tab.has

\* C9 witness: a send with tabId 5 and extensionId "x" went to tab 5
C9_Witness ==
    \E r \in Requests :
        /\ sendSt[r].via = "createMessage"
        /\ sendSt[r].options.tabId = Num(5)
        /\ sendSt[r].options.extensionId = SomeStr("x")
        /\ sendSt[r].options.windowId.has
        /\ Len(calls[r]) = 1
        /\ calls[r][1].api = "tabs.sendMessage" /\ calls[r][1].tab = Num(5)

\* C10: createExternalMessage(topic).send(p, data) sends the envelope
\* {identifier: topic, data, options: {extensionId: p}} to the external peer p,
\* never to a tab and never to the default runtime transport.
C10_ExternalSendReachesPeer ==
    \A r \in Requests :
        (sendSt[r].via = "createExternalMessage" /\ calls[r] # << >>) =>
            LET p == sendSt[r].options.extensionId.v
            IN  /\ Len(calls[r]) = 1
                /\ calls[r][1] =
                      ExternalCall(p, Envelope(sendSt[r].identifier, sendSt[r].data,
                                               Options(NoNum, SomeStr(p), NoNum)))

\* ------------------------------------------------------------- C11 .. C15
\* the host API the sender works with
SenderEnv == getBrowserEnv(host)
\* the send of r has been made
WasSent(r) == sendSt[r].via # "none"

\* C11: a send made where no host API is present, or where the host API has no
\* runtime, or with a tabId where the host API has no tabs, is rejected at once
\* with the fixed message of that case and makes no transport call.
C11_CapabilityAbsentFailsFast ==
    \A r \in Requests :
        WasSent(r) =>
            /\ ~SenderEnv.present =>
                    /\ sendSt[r].promise =
                            Rejected(Str("[chrome-messenger] browserEnv environment is not defined"))
                    /\ calls[r] = << >>
            /\ (SenderEnv.present /\ ~SenderEnv.runtime) =>
                    /\ sendSt[r].promise =
                            Rejected(Str("[chrome-messenger] browserEnv.runtime is not defined"))
                    /\ calls[r] = << >>
            /\ (SenderEnv.present /\ SenderEnv.runtime /\ sendSt[r].options.tabId.has
                    /\ ~SenderEnv.tabs) =>
                    /\ sendSt[r].promise =
                            Rejected(Str("[chrome-messenger] Failed to send to tab ")
                                     \o Str(ToString(sendSt[r].options.tabId.v))
                                     \o Str(": browserEnv.tabs is not defined"))
                    /\ calls[r] = << >>

\* a tab send that also names an external peer, made where the runtime is
\* present and tabs is not: rejected, nothing called
C11_Witness ==
    \E r \in Requests :
        /\ WasSent(r)
        /\ SenderEnv.present /\ SenderEnv.runtime /\ ~SenderEnv.tabs
        /\ sendSt[r].options.tabId = Num(0)
        /\ sendSt[r].options.extensionId = SomeStr("x")
        /\ sendSt[r].promise.st = "rejected"
        /\ calls[r] = << >>

\* the destination of the one transport call of r, as a message names it
RouteText(r) ==
    LET call == calls[r][1]
    IN  IF call.api = "tabs.sendMessage" THEN Str("tab ") \o Str(ToString(call.tab.v))
        ELSE IF call.ext.has THEN Str("extension ") \o Str(call.ext.v)
        ELSE Str("runtime")
\* the message for a failed send of r: topic, destination, reason and remedy
\* of the category, and the text given as original
ComposedMessage(r, category, original) ==
    Str("[chrome-messenger] Failed to send \"") \o Str(sendSt[r].identifier) \o Str("\" to ")
        \o RouteText(r)
        \o Str("\nReason: ") \o Str(category.reason)
        \o Str("\nSolution: ") \o Str(category.solution)
        \o Str("\nOriginal: ") \o original
\* the transport reported a failure to the reply callback of r
GotFailure(r) == sendSt[r].got = "failure" /\ calls[r] # << >>
\* the transport passed a reply to the reply callback of r
GotReply(r) == sendSt[r].got = "reply" /\ calls[r] # << >>

TransportReasons ==
    {CHROME_ERROR_PATTERNS[i].reason : i \in DOMAIN CHROME_ERROR_PATTERNS} \cup {RUNTIME_ERROR.reason}

\* C13: a reply that is a non-null object with a string error field, passed
\* without a transport failure, rejects send with the message of the
\* application category (reason Handler threw an error) and with the reason
\* of no transport failure category, whichever route the send took.
C13_ErrorReplyIsApplicationError ==
    \A r \in Requests :
        (GotReply(r) /\ LooksLikeError(sendSt[r].reply)) =>
            /\ sendSt[r].promise =
                    Rejected(ComposedMessage(r,
                        [reason |-> "Handler threw an error",
                         solution |-> "Fix the error in your message handler"],
                        sendSt[r].reply.es))
            /\ \A reason \in TransportReasons : ~Includes(sendSt[r].promise.msg, reason)

\* a tab send was answered with {error: 'tab was closed'}
C13_Witness ==
    \E r \in Requests :
        /\ GotReply(r)
        /\ calls[r][1].api = "tabs.sendMessage"
        /\ sendSt[r].reply = ErrObj(Str("tab was closed"))
        /\ sendSt[r].promise.st = "rejected"

\* C14: a reply that is not an object with a string error field, passed
\* without a transport failure, resolves send with that very reply; null,
\* undefined and {error: false} among them.
C14_OtherRepliesResolveVerbatim ==
    \A r \in Requests :
        (GotReply(r) /\ ~LooksLikeError(sendSt[r].reply)) =>
            sendSt[r].promise = Resolved(sendSt[r].reply)

\* a send was answered with {error: false} and resolved with it
C14_Witness ==
    \E r \in Requests :
        /\ GotReply(r)
        /\ sendSt[r].reply = ErrFalse
        /\ sendSt[r].promise = Resolved(ErrFalse)

\* the capability that the route of the send of r needs is present
CapabilityPresent(r) ==
    /\ SenderEnv.present
    /\ SenderEnv.runtime
    /\ sendSt[r].options.tabId.has => SenderEnv.tabs

\* C15: a send makes at most one transport call over its whole life, exactly
\* one when the capability its route needs is present, and once it is made no
\* outcome adds a call.
C15_OneAttempt ==
    /\ [](\A r \in Requests :
            /\ Len(calls[r]) <= 1
            /\ WasSent(r) => (Len(calls[r]) = 1 <=> CapabilityPresent(r)))
    /\ [][\A r \in Requests : WasSent(r) => calls'[r] = calls[r]]_vars

\* a send made one call and was then settled by a transport failure
C15_Witness ==
    \E r \in Requests :
        /\ Len(calls[r]) = 1
        /\ sendSt[r].got = "failure"
        /\ sendSt[r].raw = Str("some other error")
        /\ sendSt[r].promise.st = "rejected"

\* ------------------------------------------------------------- C16, C17
\* categorizeRuntimeError has returned
Classified == classifierOutput # NoChromeError
\* the text handed to the classifier contains trigger k, in whatever case
HoldsTrigger(k) == \E j \in DOMAIN classifierInput : classifierInput[j].w = k
\* ... contains a trigger of the category at place i of the table
HoldsTriggerOf(i) ==
    \E k \in DOMAIN CHROME_ERROR_PATTERNS[i].includes :
        HoldsTrigger(CHROME_ERROR_PATTERNS[i].includes[k])
TableOrder ==
    << "NO_RECEIVER", "TAB_UNAVAILABLE", "CONTEXT_INVALIDATED", "PERMISSION_DENIED",
       "PORT_DISCONNECTED" >>

\* C16: categorizeRuntimeError returns the first category, in the order
\* NO_RECEIVER, TAB_UNAVAILABLE, CONTEXT_INVALIDATED, PERMISSION_DENIED,
\* PORT_DISCONNECTED, that has a trigger contained in the text in whatever case;
\* a text with triggers of several categories gets the earliest, and a text
\* with "receiving end does not exist" or "could not establish connection"
\* gets NO_RECEIVER.
C16_FirstMatchInTableOrder ==
    Classified =>
        /\ \A i \in DOMAIN TableOrder :
                (HoldsTriggerOf(i) /\ \A j \in 1..(i - 1) : ~HoldsTriggerOf(j)) =>
                    /\ classifierOutput.code = TableOrder[i]
                    /\ classifierOutput = CHROME_ERROR_PATTERNS[i]
        /\ (HoldsTrigger("receiving end does not exist")
                \/ HoldsTrigger("could not establish connection")) =>
                classifierOutput.code = "NO_RECEIVER"

\* a text in upper case with a PORT_DISCONNECTED trigger before a
\* TAB_UNAVAILABLE trigger was classified as TAB_UNAVAILABLE
C16_Witness ==
    /\ Classified
    /\ classifierInput = Upper("message port closed") \o Upper("tab was closed")
    /\ classifierOutput.code = "TAB_UNAVAILABLE"

\* C17: categorizeRuntimeError returns a category for every text, the empty
\* one included; the category is RUNTIME_ERROR exactly when the text contains
\* no trigger (in whatever case), and it is never APPLICATION_ERROR.
C17_TotalWithGenericFallback ==
    Classified =>
        /\ classifierOutput.code \in {TableOrder[i] : i \in DOMAIN TableOrder} \cup {"RUNTIME_ERROR"}
        /\ classifierOutput.code = "RUNTIME_ERROR" <=> \A k \in Triggers : ~HoldsTrigger(k)
        /\ classifierOutput.code = "RUNTIME_ERROR" => classifierOutput = RUNTIME_ERROR
        /\ classifierOutput.code # APPLICATION_ERROR.code
        /\ classifierOutput.reason # APPLICATION_ERROR.reason

\* the empty text was classified as RUNTIME_ERROR
C17_Witness ==
    /\ Classified
    /\ classifierInput = EmptyText
    /\ classifierOutput.code = "RUNTIME_ERROR"

\* ------------------------------------------------------------- C18 .. C20
\* the listeners made so far
Made == 1..(nextListener - 1)
\* the event on which request r arrives
EventOf(r) == IF IsExternal(r) THEN "onMessageExternal" ELSE "onMessage"
\* the host listeners now installed for the channel of that kind and topic
HostListeners(event, topic) ==
    {l \in Made : Listening(l) /\ handlerEvent[l] = event /\ handlerTopic[l] = topic}

\* C18: a disposer removes its own registration and no other: a listener whose
\* disposer was not called stays on its event, is among the listeners the host
\* calls for a request that arrives on that event, and has its handler invoked
\* when the request carries its topic; a disposer called again leaves the
\* listeners as they are; when every disposer was called no listener is left.
C18_DisposerRemovesOnlyItsOwn ==
    /\ [](/\ \A l \in Made :
                /\ l \notin disposed => Listening(l)
                /\ l \in disposed =>
                        /\ ~InSeq(installed, l) /\ ~InSeq(installedExternal, l)
                        /\ disposer(installed, l) = installed
                        /\ disposer(installedExternal, l) = installedExternal
          /\ disposed = Made => (installed = << >> /\ installedExternal = << >>))
    /\ [][\A r \in Requests :
            /\ (phase[r] = "sent" /\ phase'[r] = "dispatching") =>
                    \A l \in Made :
                        (l \notin disposed /\ handlerEvent[l] = EventOf(r)) => InSeq(queue'[r], l)
            /\ (queue[r] # << >> /\ queue'[r] = Tail(queue[r])) =>
                    LET l == Head(queue[r])
                    IN  (l \notin disposed /\ CarriesTopicOf(r, l)) => disp'[r][l].invoked = 1
         ]_vars

\* of two handlers of one topic the first was disposed; an envelope of the
\* topic invoked the second and not the first
C18_Witness ==
    \E r \in Requests :
        /\ handlerTopic[1] = "T1" /\ handlerTopic[2] = "T1"
        /\ handlerEvent[1] = handlerEvent[2]
        /\ 1 \in disposed /\ 2 \notin disposed
        /\ disp[r][1].invoked = 0
        /\ disp[r][2].invoked = 1

\* C19: whatever onMessage and disposer calls were made, at most one host
\* listener is installed per channel.
C19_OneHostListenerPerChannel ==
    \A event \in {"onMessage", "onMessageExternal"}, topic \in Topics :
        Cardinality(HostListeners(event, topic)) <= 1

\* the listener calls of the host for r invoked the handlers in the order of
\* their registration
InRegistrationOrder(r) == ~outOfOrder[r]
\* the listeners look up the window before they handle r
ScopeLookupUsed(r) == req[r].options.windowId.has /\ LookupAvailable
\* r is sent to another window than the one of the receiving context
OtherScope(r) == ScopeLookupUsed(r) /\ req[r].options.windowId.v # currentWindow
\* the listener of l was called for r and waits for no window lookup
Handled(r, l) == Called(r, l) /\ disp[r][l].st # "lookup"

Invokes(r, l) == disp'[r][l].invoked > disp[r][l].invoked
\* the step is the host's call of the listener of l for r
HostCalls(r, l) == queue[r] # << >> /\ Head(queue[r]) = l /\ queue'[r] = Tail(queue[r])
\* the step settles the promise of the handler of l for r
Settles(r, l) == disp[r][l].st = "pending" /\ disp'[r][l].st # "pending"

\* C21: a disposed listener is not among the listeners the host calls for an
\* envelope received afterwards, and a handler is invoked only by the call of
\* its listener or the lookup that call started, so such an envelope never
\* invokes it; a promise that is pending settles into one reply, the resolved
\* value or {error: message}, whether or not the disposer was called meanwhile.
C21_DisposalStopsFutureDeliveries ==
    [][\A r \in Requests, l \in ListenerIds :
        /\ (l \in disposed /\ phase[r] = "sent" /\ phase'[r] = "dispatching") =>
                ~InSeq(queue'[r], l)
        /\ (InSeq(queue'[r], l) /\ ~InSeq(queue[r], l)) => phase[r] = "sent"
        /\ (disp[r][l].st = "none" /\ disp'[r][l].st # "none") =>
                (HostCalls(r, l) /\ l \notin disposed)
        /\ Invokes(r, l) => (HostCalls(r, l) \/ disp[r][l].st = "lookup")
        /\ Settles(r, l) =>
                /\ disp'[r][l].st = "done"
                /\ replyLog'[r] = Append(replyLog[r],
                        Reply(l, IF disp'[r][l].out = "resolve" THEN disp'[r][l].res
                                 ELSE ErrObj(disp'[r][l].thrown)))
      ]_vars

\* a handler invoked by the call of its listener is pending and its disposer
\* has been called
C21_Witness ==
    \E r \in Requests, l \in ListenerIds :
        /\ l \in disposed
        /\ disp[r][l].st = "pending"
        /\ disp[r][l].path = "unfiltered"

\* registrations added and not yet taken away
LiveRegistrations == (1..(nextRegistration - 1)) \ removed

\* C22: after any addListener, unsubscribe (repeated ones too) and
\* removeAllListeners calls, chrome.storage.onChanged holds exactly one
\* listener of the StorageListener when a registration exists and none when
\* no registration exists, and listenerCount is the number of registrations
\* added and not yet removed.
C22_OneChromeListenerWhileRegistered ==
    /\ Len(storageListener.onChanged) = IF LiveRegistrations # {} THEN 1 ELSE 0
    /\ listenerCount(storageListener) = Cardinality(LiveRegistrations)
    /\ storageListener.listeners = LiveRegistrations
    /\ \A id \in RegistrationIds : notified[id] <= 1

\* two registrations were removed, the chrome listener was cleaned up, and a
\* third registration installed a new one; its callback was called
C22_Witness ==
    /\ removed = {1, 2}
    /\ nextRegistration = 4
    /\ storageListener.onChanged = << 3 >>
    /\ notified[3] = 1

\* the getOnce calls on key that have got a value
GotValue(key) ==
    {c \in OnceCalls : onceCall[c].key = key /\ onceCall[c].pc \in {"remove", "done"}
                       /\ onceCall[c].value # "undefined"}

\* C23: a value stored once under a key is returned by at most one getOnce
\* call on the key, also when two calls are in flight together; a call that
\* found no item calls no remove; and a get that returns after a getOnce call
\* that returned the value has completed returns undefined.
C23_ValueReturnedAtMostOnce ==
    /\ [](\A key \in StorageKeys : Cardinality(GotValue(key)) <= 1)
    /\ [](\A c \in OnceCalls :
            (onceCall[c].pc = "done" /\ onceCall[c].value = "undefined") => onceCall[c].removes = 0)
    /\ [][\A c \in OnceCalls :
            (onceCall[c].pc = "done" /\ onceCall[c].value # "undefined" /\ lastGet' # lastGet
                /\ lastGet'.key = onceCall[c].key) => lastGet'.value = "undefined"]_vars

\* the listeners whose context lives in the window the request names
MatchingContexts(r) ==
    {l \in ListenerIds : Called(r, l) /\ contextWindow[l] = req[r].options.windowId.v}
\* the request was handed to several contexts, exactly one of them in the named window
OneOfSeveralMatches(r) ==
    /\ req[r].options.windowId.has
    /\ Cardinality({l \in ListenerIds : Called(r, l)}) >= 2
    /\ Cardinality(MatchingContexts(r)) = 1

\* C24: when a send that names a scope is delivered to several contexts of which
\* exactly one is in that scope, the reply the sender settles with is the one of
\* the matching context's handler, never the empty reply of another context.
C24_MatchingContextAnswers ==
    \A r \in Requests :
        (OneOfSeveralMatches(r) /\ sendSt[r].got = "reply") =>
            /\ Head(replyLog[r]).l \in MatchingContexts(r)
            /\ sendSt[r].promise = Resolved(Obj("v1"))

\* what the handler of l threw or rejected with for request r: the message of
\* an Error, or the value that is no Error
Raised(r, l) == << disp[r][l].thrown, disp[r][l].res >>

\* C25: whatever a handler throws or rejects with, its dispatcher sends exactly
\* one reply and the send that receives it rejects; a synchronous throw and an
\* asynchronous rejection of the same value produce the same reply.
C25_AnyThrownValueRejects ==
    /\ \A r \in Requests, l \in ListenerIds :
            Failed(r, l) =>
                /\ RepliesOf(r, l) = 1
                /\ GotReplyOf(r, l) => sendSt[r].promise.st = "rejected"
    /\ \A r \in Requests, l1, l2 \in ListenerIds :
            (disp[r][l1].out = "throw" /\ disp[r][l2].out = "reject" /\ Raised(r, l1) = Raised(r, l2)) =>
                /\ RepliesOf(r, l1) = RepliesOf(r, l2)
                /\ disp[r][l1].reply = disp[r][l2].reply

OnSurface(g) == {surface[g][i] : i \in DOMAIN surface[g]}

\* C27 as stated: a channel's send and onMessage use the global found when the
\* channel was created, whatever the globals are at the time of the call.
C27_SelectedAtCreation ==
    /\ sentVia # "" => sentVia = channelMade
    /\ \A l \in ListenerIds : capturedEnv[l] # "" => capturedEnv[l] = channelMade

\* C27, amended: every send and every onMessage call of a channel uses the
\* global found at the time of that call; a listener is only ever on the event
\* of the global its onMessage call found, and its disposer removes it from there
\* and changes nothing else, whatever the globals are by then.
C27_ProbedPerCall ==
    /\ [](\A g \in Globals : \A l \in OnSurface(g) : capturedEnv[l] = g)
    /\ [](\A l \in ListenerIds :
            capturedEnv[l] # "" => (l \in OnSurface(capturedEnv[l]) <=> l \notin channelDisposed))
    /\ [][/\ sentVia' # sentVia => sentVia' = getBrowserEnvGlobal(host)
          /\ \A l \in ListenerIds :
                capturedEnv'[l] # capturedEnv[l] =>
                    /\ capturedEnv'[l] = getBrowserEnvGlobal(host)
                    /\ InSeq(surface'[capturedEnv'[l]], l)
          /\ channelDisposed' # channelDisposed =>
                \E l \in ListenerIds :
                    surface' = [surface EXCEPT ![capturedEnv[l]] = Remove(@, l)]]_vars

\* a listener added to chrome's event was disposed of, and removed from it,
\* while the global chrome was gone and browser was there; the last send of the
\* channel, created under chrome, went to browser
C27_Witness ==
    /\ channelMade = "chrome"
    /\ capturedEnv[1] = "chrome"
    /\ 1 \in channelDisposed
    /\ 1 \notin OnSurface("chrome")
    /\ capturedEnv[2] = "browser"
    /\ 2 \in OnSurface("browser")
    /\ sentVia = "browser"
    /\ getBrowserEnvGlobal(host) = "browser"

\* C28: once its disposer has been called a handler is not invoked any more,
\* also not for an envelope received before the disposal whose scope lookup
\* calls back after it.
C28_NoInvocationAfterDisposal ==
    [][\A r \in Requests, l \in ListenerIds : l \in disposed => ~Invokes(r, l)]_vars

\* the destination a composed message names: what stands between
\* 'Failed to send "<identifier>" to ' and the Reason line
NamedDestination(msg) ==
    LET reasonAt == CHOOSE i \in DOMAIN msg :
                        /\ msg[i].w = "\nReason: "
                        /\ \A j \in 1..(i - 1) : msg[j].w # "\nReason: "
    IN  SubSeq(msg, 4, reasonAt - 1)

\* C29: for every options value, the destination that the message of a send
\* rejected after its transport call names (tab <id>, extension <id> or
\* runtime) is the destination of that call.
C29_NamedDestinationIsRoute ==
    \A r \in Requests :
        (sendSt[r].promise.st = "rejected" /\ calls[r] # << >>) =>
            /\ Includes(sendSt[r].promise.msg, "\nReason: ")
            /\ NamedDestination(sendSt[r].promise.msg) = RouteText(r)

\* a send with tabId 0 and extensionId "" was rejected after its call to tab 0
\* and names tab 0; one with extensionId "" alone went to the runtime and names it
C29_Witness ==
    \E r \in Requests :
        /\ sendSt[r].promise.st = "rejected"
        /\ sendSt[r].options.tabId = Num(0)
        /\ sendSt[r].options.extensionId = SomeStr("")
        /\ calls[r] # << >>
        /\ calls[r][1].api = "tabs.sendMessage" /\ calls[r][1].tab = Num(0)
        /\ NamedDestination(sendSt[r].promise.msg) = Str("tab ") \o Str("0")

\* the calls the window filter makes on the path it took
ExpectedFilterCalls ==
    IF ~filter.options.windowId.has \/ ~getBrowserEnv(host).windows
        \/ filter.window = filter.options.windowId.v
    THEN << "onMatch", "sendResponse" >>
    ELSE IF filter.onNoMatch THEN << "onNoMatch", "sendResponse" >>
    ELSE << "sendResponse" >>

\* C30: on every path of processMessageWithWindowFilter (no windowId; windowId
\* but no windows API; current window equal to windowId; current window
\* different) exactly one of onMatch and onNoMatch is called, onNoMatch only on
\* a mismatch and nothing when it was not passed; sendResponse is called once,
\* after that call, and never while the lookup is outstanding; the function
\* returns true on every path.
C30_FilterRepliesOnceAfterCallback ==
    /\ filter.pc # "idle" => filter.ret = "true"
    /\ filter.pc = "lookup" =>
            /\ filter.log = << >>
            /\ filter.options.windowId.has /\ getBrowserEnv(host).windows
    /\ filter.pc = "done" =>
            /\ filter.log = ExpectedFilterCalls
            /\ Cardinality({i \in DOMAIN filter.log : filter.log[i] = "sendResponse"}) = 1
            /\ filter.log[Len(filter.log)] = "sendResponse"
            /\ Cardinality({i \in DOMAIN filter.log : filter.log[i] # "sendResponse"}) <= 1

\* the lookup reported another window and onNoMatch was not passed: only
\* sendResponse was called
C30_Witness ==
    /\ filter.pc = "done"
    /\ filter.options.windowId = Num(1)
    /\ filter.window = 2
    /\ ~filter.onNoMatch
    /\ filter.log = << "sendResponse" >>
    /\ filter.ret = "true"

====
